---- MODULE Spec2Model ----
(***************************************************************************)
(* Jukebox (src/app.py): a Flask application whose route handlers issue    *)
(* row-level calls against a hosted datastore (tables lists, list_items,   *)
(* list_likes, followers, profiles) and a per-user Spotify client.         *)
(*                                                                         *)
(* The tables are the state.  Every route handler is an operator that maps *)
(* the store and the request (session user, URL parameters, JSON body) to  *)
(* the store after the request and the response; an action applies one     *)
(* handler to one request.  `resp' holds the last request and its          *)
(* response.                                                               *)
(*                                                                         *)
(* The datastore client is not part of the repository.  A `.single()`      *)
(* query that matches no row is modelled as the handlers treat it: a       *)
(* result whose data is empty (the `if not list_result.data' branches).    *)
(***************************************************************************)
EXTENDS Integers, Sequences, FiniteSets, TLC

\* ------------------------------------------------------------------ bounds
MaxLists == 2       \* list rows ever inserted
MaxItems == 3       \* list_items rows ever inserted
MaxPos   == 2       \* largest position a reorder request supplies
MaxOrder == 2       \* longest `order' array of a reorder-all request
MaxTime  == 2       \* clock readings 0..MaxTime
MaxRating == 2      \* ratings 0..MaxRating
MaxFavItems == 6    \* longest `items' array of a save-favorites request
MaxInFlight == 2    \* requests that can be between their read and their write
BatchSize == 2      \* ids in one playlist_add_items call (100 in the source)
MaxDetailLists == 1 \* list ids item_details looks up (20 in the source)

\* ------------------------------------------------------------- value sets
Users  == {"A", "B"}
Anon   == "anon"                      \* a request with no 'user' in session
Requesters == Users \cup {Anon}

NoId   == 0                           \* None for an id
NoTime == -1                          \* None for spotify_token_expires
Null   == "null"                      \* None for a text column

ListIds == 1..MaxLists                \* list ids a URL may carry
ItemIds == 1..MaxItems                \* item ids a URL or body may carry
PosInputs == 1..MaxPos

Titles == {<<"X">>, <<"Y">>}          \* a title is a sequence of text pieces
Descriptions == {<<"d1">>, <<"d2">>}  \* so is a description
CopyMarker == " (Copy)"

\* Two tracks of the catalog, and a playlist entry without a track id.
Tr1 == [track_id |-> "t1", track_name |-> "n1", artist_name |-> "a1",
        album_name |-> "al1", album_art_url |-> "u1"]
Tr2 == [track_id |-> "t2", track_name |-> "n2", artist_name |-> "a2",
        album_name |-> "al2", album_art_url |-> Null]
LocalFile == [track_id |-> Null, track_name |-> "n3", artist_name |-> "a3",
              album_name |-> "al3", album_art_url |-> Null]

\* request.json of add_to_list / update_list_item
TrackData == {Tr1, Tr2}

VARIABLES
  lists,          \* table lists: rows [id, user_id, title, description, is_ranked, is_public]
  list_items,     \* table list_items: rows [id, list_id, position, spotify_track_id, ...]
  list_likes,     \* table list_likes: number of rows per <<user_id, list_id>>
  followers,      \* table followers: number of rows per <<follower_id, following_id>>
  profiles,       \* table profiles: the Spotify credential columns per user
  album_ratings,  \* table album_ratings: the rows per <<user_id, album_name, artist_name>>
  song_ratings,   \* table song_ratings: the rows per <<user_id, song_name, artist_name>>
  profile_favorites, \* table profile_favorites: rows [user_id, favorite_type, position, ...]
  now,            \* the clock
  next_list_id,   \* id the datastore gives the next lists row
  next_item_id,   \* id the datastore gives the next list_items row
  resp,           \* the last request and the response it got
  inflight        \* per worker: the request that has read and not yet written

vars == <<lists, list_items, list_likes, followers, profiles, album_ratings,
          song_ratings, profile_favorites, now, next_list_id, next_item_id,
          resp, inflight>>

\* The store as one value, the argument and result of every handler.
DB == [lists |-> lists, list_items |-> list_items, list_likes |-> list_likes,
       followers |-> followers, profiles |-> profiles,
       album_ratings |-> album_ratings, song_ratings |-> song_ratings,
       profile_favorites |-> profile_favorites, now |-> now,
       next_list_id |-> next_list_id, next_item_id |-> next_item_id]

\* ---------------------------------------------------------------- responses
Response(op, u, list_id, item_id, status, msg) ==
  [op |-> op, user |-> u, list_id |-> list_id, item_id |-> item_id,
   status |-> status, msg |-> msg, target |-> "",
   shown_list |-> {}, shown_items |-> <<>>, is_owner |-> FALSE,
   new_id |-> NoId, count |-> 0, sent |-> <<>>, shown_profiles |-> {}]

\* redirect(url_for(target)), with the flashed message
Redirect(op, u, list_id, target, msg) ==
  [Response(op, u, list_id, NoId, 302, msg) EXCEPT !.target = target]

Result(d, r) == [db |-> d, resp |-> r]

\* ------------------------------------------------------------ login_required
\* d is the store the request finds, f what the decorated handler does
\* with the request.
login_required(d, u, op, f) ==
  IF u = Anon
    THEN Result(d, Redirect(op, u, NoId, "login", ""))
    ELSE f

\* ------------------------------------------------------------ table queries
\* lists.select('id').eq('id', list_id).eq('user_id', uid).single(): the
\* matching rows (ids are unique, so at most one).  The _any variant
\* drops the user_id filter.
VerifyOwnership_any(d, list_id, u) ==
  {l \in d.lists : l.id = list_id}

VerifyOwnership(d, list_id, u) ==
  {l \in d.lists : l.id = list_id /\ l.user_id = u}

\* lists.select('*').eq('id', list_id).single()
ListById(d, list_id) == {l \in d.lists : l.id = list_id}

ItemsOf(d, list_id) == {i \in d.list_items : i.list_id = list_id}

SetMax(S) == CHOOSE m \in S : \A x \in S : x <= m

\* select('position').order('position', desc=True).limit(1), then
\* (pos_result.data[0]['position'] + 1) if pos_result.data else 1.  The
\* _count variant takes the number of items plus one.
NextPosition_count(d, list_id) == Cardinality(ItemsOf(d, list_id)) + 1

NextPosition(d, list_id) ==
  LET pos_result == {i.position : i \in ItemsOf(d, list_id)}
  IN IF pos_result # {} THEN SetMax(pos_result) + 1 ELSE 1

\* The row a list_items insert stores for a track.
ItemRow(id, list_id, position, track_id, track_name, artist_name, album_name, art) ==
  [id |-> id, list_id |-> list_id, position |-> position,
   spotify_track_id |-> track_id, track_name |-> track_name,
   artist_name |-> artist_name, album_name |-> album_name,
   album_art_url |-> art]

\* select('*').eq('list_id', list_id).order('position'): every sequence of
\* the rows in ascending position; rows of equal position come in any order.
OrderedByPosition(rows) ==
  LET n == Cardinality(rows)
  IN { s \in [1..n -> rows] :
         /\ \A a, b \in 1..n : a # b => s[a] # s[b]
         /\ \A a, b \in 1..n : a < b => s[a].position <= s[b].position }

\* return jsonify({'error': 'Access denied'}), 403.  The _leak
\* variant answers 404 when no list has the id.
AccessDenied_leak(d, op, u, list_id, item_id) ==
  IF ListById(d, list_id) = {}
    THEN Result(d, Response(op, u, list_id, item_id, 404, "List not found"))
    ELSE Result(d, Response(op, u, list_id, item_id, 403, "Access denied"))

AccessDenied(d, op, u, list_id, item_id) ==
  Result(d, Response(op, u, list_id, item_id, 403, "Access denied"))

Success(op, u, list_id, item_id) ==
  Response(op, u, list_id, item_id, 200, "success")

\* ============================================================ LIST ROUTES

\* /list/new POST (create_list): the form's fields become one lists row
\* owned by the session user; the browser is sent to the edit page.
create_list(d, u, title, description, is_ranked, is_public) ==
  LET row == [id |-> d.next_list_id, user_id |-> u, title |-> title,
              description |-> description, is_ranked |-> is_ranked,
              is_public |-> is_public]
  IN Result([d EXCEPT !.lists = @ \cup {row}, !.next_list_id = @ + 1],
            [Redirect("create_list", u, row.id, "edit_list", "")
               EXCEPT !.new_id = row.id])

\* The access check of view_list and duplicate_list:
\* is_owner = 'user' in session and session['user']['id'] == lst['user_id'];
\* denied when (not lst['is_public'] and not is_owner).
IsOwner(u, lst) == u # Anon /\ u = lst.user_id

\* The _ownerOnly variant ignores is_public.
ReadAllowed_ownerOnly(u, lst) == IsOwner(u, lst)

ReadAllowed(u, lst) == ~(~lst.is_public /\ ~IsOwner(u, lst))

\* /list/<list_id> (view_list); items is the result of the items query.
view_list(d, u, list_id, items) ==
  LET list_result == ListById(d, list_id)
  IN IF list_result = {}
       THEN Result(d, Redirect("view_list", u, list_id, "index", "List not found"))
       ELSE LET lst == CHOOSE l \in list_result : TRUE
            IN IF ~ReadAllowed(u, lst)
                 THEN Result(d, Redirect("view_list", u, list_id, "index",
                                         "This list is private"))
                 ELSE Result(d, [Response("view_list", u, list_id, NoId, 200, "view_list.html")
                                   EXCEPT !.shown_list = {lst},
                                          !.shown_items = items,
                                          !.is_owner = IsOwner(u, lst)])

\* /list/<list_id>/edit (edit_list)
edit_list(d, u, list_id, items) ==
  LET list_result == VerifyOwnership(d, list_id, u)
  IN IF list_result = {}
       THEN Result(d, Redirect("edit_list", u, list_id, "dashboard",
                               "List not found or access denied"))
       ELSE Result(d, [Response("edit_list", u, list_id, NoId, 200, "edit_list.html")
                         EXCEPT !.shown_list = list_result,
                                !.shown_items = items,
                                !.is_owner = TRUE])

\* The insert of add_to_list and its response, next_position being what
\* the handler computed from the position query.  The _reread variant
\* computes the position again at the insert.
add_to_list_insert_reread(d, u, list_id, data, next_position) ==
  LET row == ItemRow(d.next_item_id, list_id, NextPosition(d, list_id),
                     data.track_id, data.track_name, data.artist_name,
                     data.album_name, data.album_art_url)
  IN Result([d EXCEPT !.list_items = @ \cup {row}, !.next_item_id = @ + 1],
            [Success("add_to_list", u, list_id, row.id) EXCEPT !.new_id = row.id])

add_to_list_insert(d, u, list_id, data, next_position) ==
  LET row == ItemRow(d.next_item_id, list_id, next_position,
                     data.track_id, data.track_name, data.artist_name,
                     data.album_name, data.album_art_url)
  IN Result([d EXCEPT !.list_items = @ \cup {row}, !.next_item_id = @ + 1],
            [Success("add_to_list", u, list_id, row.id) EXCEPT !.new_id = row.id])

\* /api/list/<list_id>/add (add_to_list)
add_to_list(d, u, list_id, data) ==
  IF VerifyOwnership(d, list_id, u) = {}
    THEN AccessDenied(d, "add_to_list", u, list_id, NoId)
    ELSE add_to_list_insert(d, u, list_id, data, NextPosition(d, list_id))

\* list_items.delete().eq('id', item_id): the rows the delete removes.
RemoveTarget(d, list_id, item_id) ==
  {i \in d.list_items : i.id = item_id}

\* The rows left by the delete.  The _renumber variant renumbers the
\* remaining items of the list.
AfterRemove_renumber(d, list_id, item_id) ==
  LET rest == d.list_items \ RemoveTarget(d, list_id, item_id)
      Rank(i) == Cardinality({j \in rest : j.list_id = i.list_id /\
                     (j.position < i.position \/
                        (j.position = i.position /\ j.id <= i.id))})
  IN { IF i.list_id = list_id THEN [i EXCEPT !.position = Rank(i)] ELSE i : i \in rest }

AfterRemove(d, list_id, item_id) ==
  d.list_items \ RemoveTarget(d, list_id, item_id)

\* /api/list/<list_id>/remove/<item_id> (remove_from_list)
remove_from_list(d, u, list_id, item_id) ==
  IF VerifyOwnership(d, list_id, u) = {}
    THEN AccessDenied(d, "remove_from_list", u, list_id, item_id)
    ELSE Result([d EXCEPT !.list_items = AfterRemove(d, list_id, item_id)],
                Success("remove_from_list", u, list_id, item_id))

\* /api/list/<list_id>/update/<item_id> (update_list_item).  The _byId
\* variant filters the update on the item id alone.
update_list_item_byId(d, u, list_id, item_id, data) ==
  IF VerifyOwnership(d, list_id, u) = {}
    THEN AccessDenied(d, "update_list_item", u, list_id, item_id)
    ELSE LET hit == {i \in d.list_items : i.id = item_id}
             Upd(i) == [i EXCEPT !.spotify_track_id = data.track_id,
                                 !.track_name = data.track_name,
                                 !.artist_name = data.artist_name,
                                 !.album_name = data.album_name,
                                 !.album_art_url = data.album_art_url]
         IN Result([d EXCEPT !.list_items = (@ \ hit) \cup {Upd(i) : i \in hit}],
                   [Success("update_list_item", u, list_id, item_id)
                      EXCEPT !.count = Cardinality(hit)])

update_list_item(d, u, list_id, item_id, data) ==
  IF VerifyOwnership(d, list_id, u) = {}
    THEN AccessDenied(d, "update_list_item", u, list_id, item_id)
    ELSE LET hit == {i \in d.list_items : i.id = item_id /\ i.list_id = list_id}
             Upd(i) == [i EXCEPT !.spotify_track_id = data.track_id,
                                 !.track_name = data.track_name,
                                 !.artist_name = data.artist_name,
                                 !.album_name = data.album_name,
                                 !.album_art_url = data.album_art_url]
         IN Result([d EXCEPT !.list_items = (@ \ hit) \cup {Upd(i) : i \in hit}],
                   [Success("update_list_item", u, list_id, item_id)
                      EXCEPT !.count = Cardinality(hit)])

\* /api/list/<list_id>/delete (delete_list): the items, then the list row.
delete_list(d, u, list_id) ==
  IF VerifyOwnership(d, list_id, u) = {}
    THEN AccessDenied(d, "delete_list", u, list_id, NoId)
    ELSE LET d1 == [d EXCEPT !.list_items = {i \in @ : i.list_id # list_id}]
             d2 == [d1 EXCEPT !.lists = {l \in @ : l.id # list_id}]
         IN Result(d2, Success("delete_list", u, list_id, NoId))

\* A JSON body key that may be absent is a set: {} when absent, {v} when
\* present with value v.
Present(field) == field # {}
ValueOf(field) == CHOOSE v \in field : TRUE
Optional(S) == {{}} \cup {{v} : v \in S}

\* /api/list/<list_id>/settings (update_list_settings)
update_list_settings(d, u, list_id, data) ==
  IF VerifyOwnership(d, list_id, u) = {}
    THEN AccessDenied(d, "update_list_settings", u, list_id, NoId)
    ELSE LET has_update == Present(data.title) \/ Present(data.description)
                           \/ Present(data.is_public) \/ Present(data.is_ranked)
             Upd(l) ==
               [l EXCEPT
                  !.title = IF Present(data.title) THEN ValueOf(data.title) ELSE @,
                  !.description = IF Present(data.description)
                                    THEN ValueOf(data.description) ELSE @,
                  !.is_public = IF Present(data.is_public)
                                  THEN ValueOf(data.is_public) ELSE @,
                  !.is_ranked = IF Present(data.is_ranked)
                                  THEN ValueOf(data.is_ranked) ELSE @]
             d1 == IF has_update
                     THEN [d EXCEPT !.lists =
                             {IF l.id = list_id THEN Upd(l) ELSE l : l \in @}]
                     ELSE d
         IN Result(d1, Success("update_list_settings", u, list_id, NoId))

\* The item-copy loop of duplicate_list: one insert per source row, in the
\* order of the select, each with the next fresh id.
RECURSIVE CopyItems(_, _, _, _)
CopyItems(d, new_list_id, items, k) ==
  IF k > Len(items) THEN d
  ELSE LET item == items[k]
           row == ItemRow(d.next_item_id, new_list_id, item.position,
                          item.spotify_track_id, item.track_name,
                          item.artist_name, item.album_name, item.album_art_url)
       IN CopyItems([d EXCEPT !.list_items = @ \cup {row}, !.next_item_id = @ + 1],
                    new_list_id, items, k + 1)

\* The lists row duplicate_list inserts for a source row.  The
\* _keepPublic variant copies is_public too; the _keepOwner variant
\* copies user_id.
CopyOfList_keepOwner(id, u, source_list) ==
  [id |-> id, user_id |-> source_list.user_id,
   title |-> Append(source_list.title, CopyMarker),
   description |-> source_list.description,
   is_ranked |-> source_list.is_ranked,
   is_public |-> FALSE]

CopyOfList_keepPublic(id, u, source_list) ==
  [id |-> id, user_id |-> u,
   title |-> Append(source_list.title, CopyMarker),
   description |-> source_list.description,
   is_ranked |-> source_list.is_ranked,
   is_public |-> source_list.is_public]

CopyOfList(id, u, source_list) ==
  [id |-> id, user_id |-> u,
   title |-> Append(source_list.title, CopyMarker),
   description |-> source_list.description,
   is_ranked |-> source_list.is_ranked,
   is_public |-> FALSE]

\* /api/list/<list_id>/duplicate (duplicate_list); items is the result of
\* the items query on the source list.
duplicate_list(d, u, list_id, items) ==
  LET list_result == ListById(d, list_id)
  IN IF list_result = {}
       THEN Result(d, Response("duplicate_list", u, list_id, NoId, 404, "List not found"))
       ELSE LET source_list == CHOOSE l \in list_result : TRUE
            IN IF ~ReadAllowed(u, source_list)
                 THEN AccessDenied(d, "duplicate_list", u, list_id, NoId)
                 ELSE LET new_list == CopyOfList(d.next_list_id, u, source_list)
                          d1 == [d EXCEPT !.lists = @ \cup {new_list},
                                          !.next_list_id = @ + 1]
                      IN Result(CopyItems(d1, new_list.id, items, 1),
                                [Success("duplicate_list", u, list_id, NoId)
                                   EXCEPT !.new_id = new_list.id])

\* list_items.update({'position': p}).eq('id', item_id)
SetPosition(rows, item_id, p) ==
  {IF i.id = item_id THEN [i EXCEPT !.position = p] ELSE i : i \in rows}

\* /api/list/<list_id>/reorder (reorder_list)
reorder_list(d, u, list_id, item_id, new_position) ==
  IF VerifyOwnership(d, list_id, u) = {}
    THEN AccessDenied(d, "reorder_list", u, list_id, item_id)
    ELSE Result([d EXCEPT !.list_items = SetPosition(@, item_id, new_position)],
                Success("reorder_list", u, list_id, item_id))

RECURSIVE ApplyOrder(_, _, _)
ApplyOrder(rows, order, k) ==
  IF k > Len(order) THEN rows
  ELSE ApplyOrder(SetPosition(rows, order[k].item_id, order[k].position), order, k + 1)

\* /api/list/<list_id>/reorder-all (reorder_list_all)
reorder_list_all(d, u, list_id, order) ==
  IF VerifyOwnership(d, list_id, u) = {}
    THEN AccessDenied(d, "reorder_list_all", u, list_id, NoId)
    ELSE Result([d EXCEPT !.list_items = ApplyOrder(@, order, 1)],
                Success("reorder_list_all", u, list_id, NoId))

\* ============================================================ SPOTIFY

\* The credential columns of a profiles row.
Unlinked ==
  [spotify_user_id |-> Null, spotify_display_name |-> Null,
   spotify_access_token |-> Null, spotify_refresh_token |-> Null,
   spotify_token_expires |-> NoTime]

AccessTokens  == {"at1", "at2"}
RefreshTokens == {"rt1", "rt2"}
ExpiresIn     == {1}

\* What the token endpoint answers: None (a non-200 status), or the JSON
\* with access_token, expires_in and, optionally, refresh_token.
NoTokenData == [ok |-> FALSE, access_token |-> Null, expires_in |-> 0,
                refresh_token |-> {}]
TokenResponses(withRefresh) ==
  {NoTokenData} \cup
  [ok : {TRUE}, access_token : AccessTokens, expires_in : ExpiresIn,
   refresh_token : withRefresh]

\* The None that get_user_spotify_client returns: no client, the store as
\* it was; refreshed tells whether refresh_spotify_token was called.  The
\* _unlink variant clears the credential columns of the user on the way.
NotConnected_unlink(d, user_id, refreshed) ==
  [db |-> [d EXCEPT !.profiles[user_id] = Unlinked], sp |-> Null,
   refreshed |-> refreshed]

NotConnected(d, user_id, refreshed) ==
  [db |-> d, sp |-> Null, refreshed |-> refreshed]

\* update_data applied to the profiles row after a refresh.  The
\* _overwrite variant writes the refresh token column whether or not the
\* answer carries one.
RefreshedProfile_overwrite(profile, new_expires, token_data) ==
  [profile EXCEPT !.spotify_access_token = token_data.access_token,
                  !.spotify_token_expires = new_expires,
                  !.spotify_refresh_token =
                     IF Present(token_data.refresh_token)
                       THEN ValueOf(token_data.refresh_token) ELSE Null]

RefreshedProfile(profile, new_expires, token_data) ==
  LET p1 == [profile EXCEPT
               !.spotify_access_token = token_data.access_token,
               !.spotify_token_expires = new_expires]
  IN IF Present(token_data.refresh_token)
       THEN [p1 EXCEPT !.spotify_refresh_token = ValueOf(token_data.refresh_token)]
       ELSE p1

\* get_user_spotify_client(user_id), called at clock reading t, the token
\* endpoint answering token_data if asked.  sp is the access token the
\* client is built with, Null for None; refreshed tells whether
\* refresh_spotify_token was called.
get_user_spotify_client(d, user_id, t, token_data) ==
  LET profile == d.profiles[user_id]
      d0 == [d EXCEPT !.now = t]
  IN IF profile.spotify_access_token = Null THEN NotConnected(d0, user_id, FALSE)
     ELSE LET expires_at == profile.spotify_token_expires
          IN IF expires_at # NoTime /\ t >= expires_at
               THEN LET refresh_token == profile.spotify_refresh_token
                    IN IF refresh_token = Null THEN NotConnected(d0, user_id, FALSE)
                       ELSE IF ~token_data.ok THEN NotConnected(d0, user_id, TRUE)
                       ELSE LET new_expires == t + token_data.expires_in
                            IN [db |-> [d0 EXCEPT !.profiles[user_id] =
                                          RefreshedProfile(profile, new_expires,
                                                           token_data)],
                                sp |-> token_data.access_token,
                                refreshed |-> TRUE]
               ELSE [db |-> d0, sp |-> profile.spotify_access_token,
                     refreshed |-> FALSE]

\* The playlists of the streaming service: a name and the pages of the
\* track listing; an entry whose track has no id carries track_id Null.
PlaylistIds == {"p1", "p2"}
Playlists ==
  [p \in PlaylistIds |->
     IF p = "p1" THEN [name |-> <<"P1">>, pages |-> << <<Tr1, LocalFile>>, <<Tr2>> >>]
                 ELSE [name |-> <<"P2">>, pages |-> << <<Tr2>> >>]]
ApiError == [name |-> <<>>, pages |-> <<>>]     \* the client raised

\* The tracks of one page that have an id, in page order.
RECURSIVE PageTracks(_, _)
PageTracks(page, k) ==
  IF k > Len(page) THEN <<>>
  ELSE (IF page[k].track_id # Null THEN <<page[k]>> ELSE <<>>)
         \o PageTracks(page, k + 1)

\* The while loop of import_spotify_playlist: page after page while the
\* page has a next one.  The _firstPage variant stops after one page.
FetchTracks_firstPage(pages, n) ==
  IF n > Len(pages) THEN <<>> ELSE PageTracks(pages[n], 1)

RECURSIVE FetchTracks(_, _)
FetchTracks(pages, n) ==
  IF n > Len(pages) THEN <<>>
  ELSE PageTracks(pages[n], 1) \o FetchTracks(pages, n + 1)

\* The insert loop of import_spotify_playlist: track i (from 0) at
\* position first + i.
RECURSIVE InsertTracks(_, _, _, _, _)
InsertTracks(d, list_id, tracks, first, k) ==
  IF k > Len(tracks) THEN d
  ELSE LET tr == tracks[k]
           row == ItemRow(d.next_item_id, list_id, first + (k - 1),
                          tr.track_id, tr.track_name, tr.artist_name,
                          tr.album_name, tr.album_art_url)
       IN InsertTracks([d EXCEPT !.list_items = @ \cup {row}, !.next_item_id = @ + 1],
                       list_id, tracks, first, k + 1)

\* /api/spotify/import (import_spotify_playlist).  data is the JSON body:
\* playlist_id (optional), list_id (NoId for none), new_list_title
\* (optional); playlist is what the service returns for the playlist, or
\* ApiError.
import_spotify_playlist(d, u, data, t, token_data, playlist) ==
  LET c == get_user_spotify_client(d, u, t, token_data)
      d0 == c.db
      Op == "import_spotify_playlist"
  IN IF c.sp = Null
       THEN Result(d0, Response(Op, u, data.list_id, NoId, 401, "Spotify not connected"))
     ELSE IF ~Present(data.playlist_id)
       THEN Result(d0, Response(Op, u, data.list_id, NoId, 400, "Playlist ID required"))
     ELSE IF playlist = ApiError
       THEN Result(d0, Response(Op, u, data.list_id, NoId, 500, "error"))
     ELSE LET tracks == FetchTracks(playlist.pages, 1)
          IN IF data.list_id # NoId
               THEN IF VerifyOwnership(d0, data.list_id, u) = {}
                      THEN Result(d0, Response(Op, u, data.list_id, NoId, 403,
                                               "List not found or access denied"))
                      ELSE Result(InsertTracks(d0, data.list_id, tracks,
                                               NextPosition(d0, data.list_id), 1),
                                  [Success(Op, u, data.list_id, NoId)
                                     EXCEPT !.new_id = data.list_id,
                                            !.count = Len(tracks)])
               ELSE LET title == IF Present(data.new_list_title)
                                   THEN ValueOf(data.new_list_title)
                                   ELSE playlist.name
                        row == [id |-> d0.next_list_id, user_id |-> u,
                                title |-> title,
                                description |-> <<"Imported from Spotify: ">> \o playlist.name,
                                is_ranked |-> TRUE, is_public |-> FALSE]
                        d1 == [d0 EXCEPT !.lists = @ \cup {row}, !.next_list_id = @ + 1]
                    IN Result(InsertTracks(d1, row.id, tracks, 1, 1),
                              [Success(Op, u, NoId, NoId)
                                 EXCEPT !.new_id = row.id, !.count = Len(tracks)])

\* ---------------------------------------------------------------- export
\* A write on a playlist of the streaming service: playlist_replace_items,
\* user_playlist_create or playlist_add_items, with the playlist, the
\* uris and the name it is given.
Call(call, playlist_id, uris, name) ==
  [call |-> call, playlist |-> playlist_id, uris |-> uris, name |-> name]

\* f'spotify:track:{tid}'
Uri(tid) == <<"spotify:track:", tid>>

\* The id the service gives a playlist it creates.
NewPlaylist == "new"

\* [item['spotify_track_id'] for item in items if item.get('spotify_track_id')].
\* The _keepAll variant takes the items without an id too.
RECURSIVE TrackIds_keepAll(_)
TrackIds_keepAll(items) ==
  IF items = <<>> THEN <<>>
  ELSE <<Head(items).spotify_track_id>> \o TrackIds_keepAll(Tail(items))

RECURSIVE TrackIds(_)
TrackIds(items) ==
  IF items = <<>> THEN <<>>
  ELSE (IF Head(items).spotify_track_id # Null
          THEN <<Head(items).spotify_track_id>> ELSE <<>>)
       \o TrackIds(Tail(items))

\* for i in range(0, len(track_ids), 100): track_ids[i:i+100], as uris.
\* The _firstOnly variant stops after the first batch.
Batches_firstOnly(track_ids) ==
  [k \in 1..(IF track_ids = <<>> THEN 0 ELSE 1) |->
     [j \in 1..(IF Len(track_ids) < BatchSize THEN Len(track_ids) ELSE BatchSize) |->
        Uri(track_ids[j])]]

Batches(track_ids) ==
  [k \in 1..((Len(track_ids) + BatchSize - 1) \div BatchSize) |->
     LET i == (k - 1) * BatchSize
         n == IF Len(track_ids) - i < BatchSize THEN Len(track_ids) - i ELSE BatchSize
     IN [j \in 1..n |-> Uri(track_ids[i + j])]]

\* /api/spotify/export (export_to_spotify).  data is request.json with
\* list_id, playlist_id and new_playlist_name (optional); items is the
\* result of the items query; api_ok tells whether current_user()
\* answers; fail_at is the number of the write on the service that
\* raises (none if the request makes fewer writes).  `sent' holds the
\* writes the service has carried out.
export_to_spotify(d, u, data, t, token_data, items, api_ok, fail_at) ==
  LET c == get_user_spotify_client(d, u, t, token_data)
      d0 == c.db
      Op == "export_to_spotify"
      R(status, msg) == Result(d0, Response(Op, u, data.list_id, NoId, status, msg))
  IN IF c.sp = Null THEN R(401, "Spotify not connected")
     ELSE IF data.list_id = NoId THEN R(400, "List ID required")
     ELSE LET list_result == ListById(d0, data.list_id)
          IN IF list_result = {} THEN R(404, "List not found")
             ELSE LET lst == CHOOSE l \in list_result : TRUE
                      is_owner == u = lst.user_id
                      track_ids == TrackIds(items)
                  IN IF ~lst.is_public /\ ~is_owner THEN R(403, "Access denied")
                     ELSE IF track_ids = <<>> THEN R(400, "No tracks to export")
                     ELSE IF ~api_ok THEN R(500, "error")
                     ELSE LET playlist_id == IF Present(data.playlist_id)
                                               THEN ValueOf(data.playlist_id)
                                               ELSE NewPlaylist
                              name == IF Present(data.new_playlist_name)
                                        THEN ValueOf(data.new_playlist_name)
                                        ELSE lst.title
                              first == IF Present(data.playlist_id)
                                         THEN Call("playlist_replace_items",
                                                   playlist_id, <<>>, <<>>)
                                         ELSE Call("user_playlist_create",
                                                   playlist_id, <<>>, name)
                              batches == Batches(track_ids)
                              calls == <<first>> \o
                                       [k \in 1..Len(batches) |->
                                          Call("playlist_add_items", playlist_id,
                                               batches[k], <<>>)]
                          IN IF fail_at \in 1..Len(calls)
                               THEN Result(d0, [Response(Op, u, data.list_id, NoId,
                                                         500, "error")
                                                  EXCEPT !.sent = SubSeq(calls, 1, fail_at - 1)])
                               ELSE Result(d0, [Success(Op, u, data.list_id, NoId)
                                                  EXCEPT !.target = playlist_id,
                                                         !.count = Len(track_ids),
                                                         !.sent = calls])

\* /callback/spotify (spotify_callback).  error and code are the query
\* parameters (optional); token_data is the answer of the code exchange;
\* spotify_user the id current_user() returns, Null when it raised.  The
\* _noLookup variant goes on when current_user() raised.
spotify_callback_noLookup(d, u, error, code, t, token_data, spotify_user) ==
  LET Op == "spotify_callback"
  IN IF Present(error)
       THEN Result(d, Redirect(Op, u, NoId, "dashboard", "Spotify authorization failed"))
     ELSE IF ~Present(code)
       THEN Result(d, Redirect(Op, u, NoId, "dashboard", "No authorization code received"))
     ELSE IF u = Anon
       THEN Result(d, Redirect(Op, u, NoId, "login", "Please log in first"))
     ELSE IF ~token_data.ok
       THEN Result(d, Redirect(Op, u, NoId, "dashboard", "Failed to get Spotify tokens"))
     ELSE Result([d EXCEPT !.profiles[u] =
                     [spotify_user_id |-> spotify_user,
                      spotify_display_name |-> spotify_user,
                      spotify_access_token |-> token_data.access_token,
                      spotify_refresh_token |-> ValueOf(token_data.refresh_token),
                      spotify_token_expires |-> t + token_data.expires_in],
                   !.now = t],
                 Redirect(Op, u, NoId, "user_profile",
                          "Spotify account linked successfully!"))

spotify_callback(d, u, error, code, t, token_data, spotify_user) ==
  LET Op == "spotify_callback"
  IN IF Present(error)
       THEN Result(d, Redirect(Op, u, NoId, "dashboard", "Spotify authorization failed"))
     ELSE IF ~Present(code)
       THEN Result(d, Redirect(Op, u, NoId, "dashboard", "No authorization code received"))
     ELSE IF u = Anon
       THEN Result(d, Redirect(Op, u, NoId, "login", "Please log in first"))
     ELSE IF ~token_data.ok
       THEN Result(d, Redirect(Op, u, NoId, "dashboard", "Failed to get Spotify tokens"))
     ELSE IF spotify_user = Null
       THEN Result(d, Redirect(Op, u, NoId, "dashboard", "Failed to get Spotify profile"))
     ELSE LET expires_at == t + token_data.expires_in
              p == [spotify_user_id |-> spotify_user,
                    spotify_display_name |-> spotify_user,
                    spotify_access_token |-> token_data.access_token,
                    spotify_refresh_token |-> ValueOf(token_data.refresh_token),
                    spotify_token_expires |-> expires_at]
          IN Result([d EXCEPT !.profiles[u] = p, !.now = t],
                    Redirect(Op, u, NoId, "user_profile",
                             "Spotify account linked successfully!"))

\* /disconnect/spotify (disconnect_spotify).  The _keepRefresh variant
\* leaves the refresh token column as it is.
disconnect_spotify_keepRefresh(d, u) ==
  Result([d EXCEPT !.profiles[u] =
            [Unlinked EXCEPT !.spotify_refresh_token = d.profiles[u].spotify_refresh_token]],
         Success("disconnect_spotify", u, NoId, NoId))

disconnect_spotify(d, u) ==
  Result([d EXCEPT !.profiles[u] = Unlinked],
         Success("disconnect_spotify", u, NoId, NoId))

\* ============================================================ SOCIAL

\* /api/list/<list_id>/like (like_list).  The _noCheck variant
\* inserts without the existence check.
like_list_noCheck(d, u, list_id) ==
  Result([d EXCEPT !.list_likes[<<u, list_id>>] = @ + 1],
         Success("like_list", u, list_id, NoId))

\* The insert of like_list and its response.
like_list_insert(d, u, list_id) ==
  Result([d EXCEPT !.list_likes[<<u, list_id>>] = @ + 1],
         Success("like_list", u, list_id, NoId))

like_list(d, u, list_id) ==
  LET existing == d.list_likes[<<u, list_id>>]
  IN IF existing > 0
       THEN Result(d, Response("like_list", u, list_id, NoId, 200, "Already liked"))
       ELSE like_list_insert(d, u, list_id)

\* /api/list/<list_id>/unlike (unlike_list)
unlike_list(d, u, list_id) ==
  Result([d EXCEPT !.list_likes[<<u, list_id>>] = 0],
         Success("unlike_list", u, list_id, NoId))

\* /api/user/<user_id>/follow (follow_user); the response record keeps
\* the requested user_id in `target'.  The _noSelfCheck variant does not
\* compare the follower with the followed user.
follow_user_noSelfCheck(d, u, user_id) ==
  LET R(status, msg) == [Response("follow_user", u, NoId, NoId, status, msg)
                           EXCEPT !.target = user_id]
  IN IF d.followers[<<u, user_id>>] > 0
       THEN Result(d, R(200, "Already following"))
       ELSE Result([d EXCEPT !.followers[<<u, user_id>>] = @ + 1],
                   R(200, "success"))

\* The insert of follow_user and its response.
follow_user_insert(d, u, user_id) ==
  Result([d EXCEPT !.followers[<<u, user_id>>] = @ + 1],
         [Response("follow_user", u, NoId, NoId, 200, "success")
            EXCEPT !.target = user_id])

follow_user(d, u, user_id) ==
  LET follower_id == u
      R(status, msg) == [Response("follow_user", u, NoId, NoId, status, msg)
                           EXCEPT !.target = user_id]
  IN IF follower_id = user_id
       THEN Result(d, R(400, "Cannot follow yourself"))
       ELSE LET existing == d.followers[<<follower_id, user_id>>]
            IN IF existing > 0
                 THEN Result(d, R(200, "Already following"))
                 ELSE follow_user_insert(d, follower_id, user_id)

\* /api/user/<user_id>/unfollow (unfollow_user)
unfollow_user(d, u, user_id) ==
  Result([d EXCEPT !.followers[<<u, user_id>>] = 0],
         [Success("unfollow_user", u, NoId, NoId) EXCEPT !.target = user_id])

\* ============================================================ RATINGS

\* A rating is keyed by the user and the subject's name and artist; the
\* two subjects share the name and differ in the artist.
SubjectNames == {"n1"}
SubjectArtists == {"a1", "a2"}
RatingKeys == Users \X SubjectNames \X SubjectArtists
RatingValues == 0..MaxRating

\* request.json of save_album_rating / save_song_rating
RatingBodies ==
  [name : SubjectNames, artist_name : SubjectArtists, rating : RatingValues,
   album_art_url : {"u1", "u2"}]

\* The body of save_album_rating and of save_song_rating, on the table of
\* either: table[k] holds the rows the existence query returns for key k,
\* in the order it returns them.  The _storeZero variant treats rating 0
\* as any other rating; the _alwaysInsert variant never updates.
save_rating_storeZero(table, u, data) ==
  LET k == <<u, data.name, data.artist_name>>
      row == [rating |-> data.rating, album_art_url |-> data.album_art_url]
  IN IF table[k] # <<>> THEN [table EXCEPT ![k][1] = row]
     ELSE [table EXCEPT ![k] = Append(@, row)]

save_rating_alwaysInsert(table, u, data) ==
  LET k == <<u, data.name, data.artist_name>>
      row == [rating |-> data.rating, album_art_url |-> data.album_art_url]
  IN IF data.rating = 0
       THEN IF table[k] # <<>> THEN [table EXCEPT ![k] = Tail(@)] ELSE table
       ELSE [table EXCEPT ![k] = Append(@, row)]

save_rating(table, u, data) ==
  LET k == <<u, data.name, data.artist_name>>
      existing == table[k]
  IN IF data.rating = 0
       THEN IF existing # <<>>
              THEN [table EXCEPT ![k] = Tail(@)]      \* delete().eq('id', existing.data[0]['id'])
              ELSE table
     ELSE IF existing # <<>>
       THEN [table EXCEPT ![k][1] = [rating |-> data.rating,
                                     album_art_url |-> data.album_art_url]]
     ELSE [table EXCEPT ![k] = Append(@, [rating |-> data.rating,
                                          album_art_url |-> data.album_art_url])]

\* The response record keeps the artist of the request in `target' and
\* the rating in `count'.
Rated(op, u, data) ==
  [Success(op, u, NoId, NoId) EXCEPT !.target = data.artist_name,
                                     !.count = data.rating]

\* /api/album/rating POST (save_album_rating)
save_album_rating(d, u, data) ==
  Result([d EXCEPT !.album_ratings = save_rating(@, u, data)],
         Rated("save_album_rating", u, data))

\* /api/song/rating POST (save_song_rating)
save_song_rating(d, u, data) ==
  Result([d EXCEPT !.song_ratings = save_rating(@, u, data)],
         Rated("save_song_rating", u, data))

\* ============================================================ FAVORITES

FavCap == 5                     \* items[:5]
FavTypes == {"song", "album"}
FavTypeInputs == FavTypes \cup {"artist"}
F1 == [spotify_id |-> "s1", name |-> "fn1", artist_name |-> "fa1",
       album_art_url |-> "fu1"]
F2 == [spotify_id |-> "s2", name |-> "fn2", artist_name |-> "fa2",
       album_art_url |-> Null]
FavItems == {F1, F2}
FavBodies == UNION {[1..n -> FavItems] : n \in 0..MaxFavItems}
FavPositions == 1..MaxFavItems

\* The row save_favorites inserts for item at index i (from 0).
FavRow(u, favorite_type, i, item) ==
  [user_id |-> u, favorite_type |-> favorite_type, position |-> i + 1,
   spotify_id |-> item.spotify_id, name |-> item.name,
   artist_name |-> item.artist_name, album_art_url |-> item.album_art_url]

\* items[:5].  The _noCap variant takes every item.
FirstItems_noCap(items) == items

FirstItems(items) ==
  SubSeq(items, 1, IF Len(items) < FavCap THEN Len(items) ELSE FavCap)

\* /api/profile/favorites/<favorite_type> POST (save_favorites); the
\* response record keeps the type in `target' and len(items) in `count'.
save_favorites(d, u, favorite_type, items) ==
  LET R(status, msg) ==
        [Response("save_favorites", u, NoId, NoId, status, msg)
           EXCEPT !.target = favorite_type, !.count = Len(items)]
  IN IF favorite_type \notin FavTypes
       THEN Result(d, R(400, "Invalid type"))
       ELSE LET kept == {r \in d.profile_favorites :
                           ~(r.user_id = u /\ r.favorite_type = favorite_type)}
                first == FirstItems(items)
                new == {FavRow(u, favorite_type, i - 1, first[i]) : i \in 1..Len(first)}
            IN Result([d EXCEPT !.profile_favorites = kept \cup new],
                      R(200, "success"))

\* /api/profile/favorites/<favorite_type>/<position> DELETE
\* (remove_favorite); `count' keeps the position.
remove_favorite(d, u, favorite_type, position) ==
  LET R(status, msg) ==
        [Response("remove_favorite", u, NoId, NoId, status, msg)
           EXCEPT !.target = favorite_type, !.count = position]
  IN IF favorite_type \notin FavTypes
       THEN Result(d, R(400, "Invalid type"))
       ELSE Result([d EXCEPT !.profile_favorites =
                      {r \in @ : ~(r.user_id = u /\ r.favorite_type = favorite_type
                                    /\ r.position = position)}],
                   R(200, "success"))

\* ============================================================ READ ROUTES
\* The pages and API routes that show lists of several users.  The
\* response record keeps what they show of lists (`shown_list') and of
\* profiles (`shown_profiles'); preview images, ratings, favorites and
\* follower counts of the pages are left out.

IndexLimit == 12
SearchLimit == 5

RECURSIVE LikeRows(_, _, _)
LikeRows(d, users, list_id) ==
  IF users = {} THEN 0
  ELSE LET u == CHOOSE x \in users : TRUE
       IN d.list_likes[<<u, list_id>>] + LikeRows(d, users \ {u}, list_id)

\* select('id', count='exact').eq('list_id', ...) on list_likes.
LikeCount(d, list_id) ==
  IF list_id \in ListIds THEN LikeRows(d, Users, list_id) ELSE 0

\* What a page or an API answer shows of lists row lst.
Summary(d, lst) ==
  [id |-> lst.id, title |-> lst.title, description |-> lst.description,
   is_ranked |-> lst.is_ranked, username |-> lst.user_id,
   item_count |-> Cardinality(ItemsOf(d, lst.id)),
   like_count |-> LikeCount(d, lst.id)]

\* order('created_at', desc=True).limit(n): ids are handed out in the
\* order of creation.
Latest(rows, n) == {l \in rows : Cardinality({m \in rows : m.id > l.id}) < n}

\* The results a query or a slice may keep when it takes at most n of S
\* with no order given.
Picks(S, n) ==
  {P \in SUBSET S : Cardinality(P) = IF Cardinality(S) < n THEN Cardinality(S) ELSE n}

\* ilike(column, f'%{query}%') on a text made of pieces
Matches(text, query) == \E k \in 1..Len(text) : text[k] = query

\* / (index)
index(d, u) ==
  LET public_lists == Latest({l \in d.lists : l.is_public}, IndexLimit)
  IN Result(d, [Response("index", u, NoId, NoId, 200, "index.html")
                  EXCEPT !.shown_list = {Summary(d, l) : l \in public_lists}])

\* /u/<username> (user_profile); the username of a user is the user id.
user_profile(d, u, username) ==
  IF username \notin Users
    THEN Result(d, Redirect("user_profile", u, NoId, "index", "User not found"))
    ELSE LET lsts == {l \in d.lists : l.user_id = username /\ l.is_public}
         IN Result(d, [Response("user_profile", u, NoId, NoId, 200, "profile.html")
                         EXCEPT !.target = username,
                                !.shown_list = {Summary(d, l) : l \in lsts},
                                !.is_owner = (u = username)])

\* The public lists whose title holds the query.
SearchHits(d, query) ==
  {l \in d.lists : l.is_public /\ Matches(l.title, ValueOf(query))}

\* /api/search/unified (unified_search); query is parameter q (optional);
\* picked are the lists rows the query with limit(5) returns.  (At most
\* two profiles exist, so the limit on profiles keeps them all.)
unified_search(d, u, query, picked) ==
  LET Op == "unified_search"
  IN IF ~Present(query) THEN Result(d, Success(Op, u, NoId, NoId))
     ELSE LET profiles_result == {p \in Users : p = ValueOf(query)}
          IN Result(d, [Success(Op, u, NoId, NoId)
                          EXCEPT !.shown_profiles =
                                   {[username |-> p,
                                     list_count |-> Cardinality(
                                        {l \in d.lists : l.user_id = p /\ l.is_public})] :
                                      p \in profiles_result},
                                 !.shown_list = {Summary(d, l) : l \in picked}])

\* The list ids of the items that match the song or the album.
ListsHolding(d, args) ==
  {i.list_id : i \in
     {x \in d.list_items :
        /\ x.artist_name = ValueOf(args.artist)
        /\ IF args.type = {"song"} THEN x.track_name = ValueOf(args.name)
                                  ELSE x.album_name = ValueOf(args.name)}}

\* /api/item/details (item_details); args are the parameters type, name
\* and artist (optional); picked is list_ids[:20], the part of the set of
\* list ids the slice keeps.
item_details(d, u, args, picked) ==
  LET Op == "item_details"
  IN IF ~Present(args.type) \/ ~Present(args.name) \/ ~Present(args.artist)
       THEN Result(d, Response(Op, u, NoId, NoId, 400, "Missing parameters"))
       ELSE LET list_data == {l \in d.lists : l.id \in picked /\ l.is_public}
            IN Result(d, [Success(Op, u, NoId, NoId)
                            EXCEPT !.shown_list = {Summary(d, l) : l \in list_data}])

\* /api/user/<user_id>/liked-lists (get_user_liked_lists); `count' is
\* the number of entries of the answer, one for each like row of a
\* public list.
get_user_liked_lists(d, u, user_id) ==
  LET liked == {l \in d.lists :
                  /\ l.is_public /\ user_id \in Users /\ l.id \in ListIds
                  /\ d.list_likes[<<user_id, l.id>>] > 0}
      RECURSIVE Entries(_)
      Entries(S) == IF S = {} THEN 0
                    ELSE LET l == CHOOSE x \in S : TRUE
                         IN d.list_likes[<<user_id, l.id>>] + Entries(S \ {l})
  IN Result(d, [Success("get_user_liked_lists", u, NoId, NoId)
                  EXCEPT !.target = user_id,
                         !.shown_list = {Summary(d, l) : l \in liked},
                         !.count = Entries(liked)])

\* ============================================================ STATE MACHINE

NoResponse == Response("none", Anon, NoId, NoId, 0, "")

\* The workers that serve requests side by side, and a worker that is
\* not between a read and a write.
Workers == 1..MaxInFlight
Idle == [op |-> "idle", user |-> Anon, list_id |-> NoId, body |-> <<>>, read |-> 0]

Init ==
  /\ lists = {}
  /\ list_items = {}
  /\ list_likes = [p \in Users \X ListIds |-> 0]
  /\ followers = [p \in Users \X Users |-> 0]
  /\ profiles = [u \in Users |-> Unlinked]
  /\ album_ratings = [k \in RatingKeys |-> <<>>]
  /\ song_ratings = [k \in RatingKeys |-> <<>>]
  /\ profile_favorites = {}
  /\ now = 0
  /\ next_list_id = 1
  /\ next_item_id = 1
  /\ resp = NoResponse
  /\ inflight = [w \in Workers |-> Idle]

\* The tables become those of store d.  The datastore hands out at most
\* MaxLists list ids and MaxItems item ids.
Store(d) ==
  /\ d.next_list_id <= MaxLists + 1
  /\ d.next_item_id <= MaxItems + 1
  /\ lists' = d.lists
  /\ list_items' = d.list_items
  /\ list_likes' = d.list_likes
  /\ followers' = d.followers
  /\ profiles' = d.profiles
  /\ album_ratings' = d.album_ratings
  /\ song_ratings' = d.song_ratings
  /\ profile_favorites' = d.profile_favorites
  /\ now' = d.now
  /\ next_list_id' = d.next_list_id
  /\ next_item_id' = d.next_item_id

\* The store becomes the handler's store and the response is recorded.
Write(r) == Store(r.db) /\ resp' = r.resp

\* One request served from its first statement to its last, no other
\* request in between.
Apply(r) == Write(r) /\ UNCHANGED inflight

\* ------------------------------------------------------------ requests
\* A request: the route (op), the session user, the ids in the URL and the
\* body; env is what the request meets outside the store (the row order
\* of a select, the clock, the answers of the streaming service).
Request(op, u, list_id, item_id, body, env) ==
  [op |-> op, user |-> u, list_id |-> list_id, item_id |-> item_id,
   body |-> body, env |-> env]

\* The route table: the handler behind each route, decorated as in the
\* source.  d is the store the request finds.
Serve(d, q) ==
  LET u == q.user
      Guarded(f) == login_required(d, u, q.op, f)
  IN CASE q.op = "create_list" ->
            Guarded(create_list(d, u, q.body.title, q.body.description,
                                q.body.is_ranked, q.body.is_public))
       [] q.op = "view_list" -> view_list(d, u, q.list_id, q.env)
       [] q.op = "edit_list" -> Guarded(edit_list(d, u, q.list_id, q.env))
       [] q.op = "add_to_list" -> Guarded(add_to_list(d, u, q.list_id, q.body))
       [] q.op = "remove_from_list" ->
            Guarded(remove_from_list(d, u, q.list_id, q.item_id))
       [] q.op = "update_list_item" ->
            Guarded(update_list_item(d, u, q.list_id, q.item_id, q.body))
       [] q.op = "delete_list" -> Guarded(delete_list(d, u, q.list_id))
       [] q.op = "update_list_settings" ->
            Guarded(update_list_settings(d, u, q.list_id, q.body))
       [] q.op = "duplicate_list" -> Guarded(duplicate_list(d, u, q.list_id, q.env))
       [] q.op = "reorder_list" ->
            Guarded(reorder_list(d, u, q.list_id, q.item_id, q.body))
       [] q.op = "reorder_list_all" ->
            Guarded(reorder_list_all(d, u, q.list_id, q.body))
       [] q.op = "import_spotify_playlist" ->
            Guarded(import_spotify_playlist(d, u, q.body, q.env.t, q.env.token_data,
                                            q.env.playlist))
       [] q.op = "export_to_spotify" ->
            Guarded(export_to_spotify(d, u, q.body, q.env.t, q.env.token_data,
                                      q.env.items, q.env.api_ok, q.env.fail_at))
       [] q.op = "index" -> index(d, u)
       [] q.op = "user_profile" -> user_profile(d, u, q.body)
       [] q.op = "unified_search" -> unified_search(d, u, q.body, q.env)
       [] q.op = "item_details" -> item_details(d, u, q.body, q.env)
       [] q.op = "get_user_liked_lists" -> get_user_liked_lists(d, u, q.body)
       [] q.op = "spotify_callback" ->
            spotify_callback(d, u, q.body.error, q.body.code, q.env.t,
                             q.env.token_data, q.env.spotify_user)
       [] q.op = "disconnect_spotify" -> Guarded(disconnect_spotify(d, u))
       [] q.op = "like_list" -> Guarded(like_list(d, u, q.list_id))
       [] q.op = "unlike_list" -> Guarded(unlike_list(d, u, q.list_id))
       [] q.op = "follow_user" -> Guarded(follow_user(d, u, q.body))
       [] q.op = "unfollow_user" -> Guarded(unfollow_user(d, u, q.body))
       [] q.op = "save_album_rating" -> Guarded(save_album_rating(d, u, q.body))
       [] q.op = "save_song_rating" -> Guarded(save_song_rating(d, u, q.body))
       [] q.op = "save_favorites" ->
            Guarded(save_favorites(d, u, q.body.favorite_type, q.body.items))
       [] q.op = "remove_favorite" ->
            Guarded(remove_favorite(d, u, q.body.favorite_type, q.body.position))

\* How the requester stands to the list a request names.
Role(d, u, list_id) ==
  IF u = Anon THEN "anon"
  ELSE IF \E l \in d.lists : l.id = list_id /\ l.user_id = u THEN "owner"
  ELSE "other"

\* The playlist the service returns for a request body, ApiError when the
\* call fails.
PlaylistFor(data, api_ok) ==
  IF api_ok /\ Present(data.playlist_id)
    THEN Playlists[ValueOf(data.playlist_id)] ELSE ApiError

\* The requests of route op that environment E sends at store d: E.users
\* in the roles E.roles, at the lists E.lists and items E.items, with the
\* forms and bodies E allows.
RequestsOf(d, E, op) ==
  LET All ==
    CASE op = "create_list" ->
           {Request(op, u, NoId, NoId, b, <<>>) : u \in E.users, b \in E.forms}
      [] op \in {"view_list", "edit_list", "duplicate_list"} ->
           UNION {{Request(op, u, l, NoId, <<>>, items) :
                     u \in E.users, items \in OrderedByPosition(ItemsOf(d, l))} :
                  l \in E.lists}
      [] op = "add_to_list" ->
           {Request(op, u, l, NoId, b, <<>>) :
              u \in E.users, l \in E.lists, b \in E.tracks}
      [] op = "remove_from_list" ->
           {Request(op, u, l, i, <<>>, <<>>) :
              u \in E.users, l \in E.lists, i \in E.items}
      [] op = "update_list_item" ->
           {Request(op, x[1], x[2], x[3], b, <<>>) :
              x \in E.users \X E.lists \X E.items, b \in E.tracks}
      [] op \in {"delete_list", "like_list", "unlike_list"} ->
           {Request(op, u, l, NoId, <<>>, <<>>) : u \in E.users, l \in E.lists}
      [] op = "update_list_settings" ->
           {Request(op, u, l, NoId, b, <<>>) :
              u \in E.users, l \in E.lists, b \in E.settings}
      [] op = "reorder_list" ->
           {Request(op, x[1], x[2], x[3], p, <<>>) :
              x \in E.users \X E.lists \X E.items, p \in E.positions}
      [] op = "reorder_list_all" ->
           {Request(op, u, l, NoId, b, <<>>) :
              u \in E.users, l \in E.lists, b \in E.orders}
      [] op = "import_spotify_playlist" ->
           {Request(op, u, b.list_id, NoId, b,
                    [t |-> x[1], token_data |-> x[2],
                     playlist |-> PlaylistFor(b, x[3])]) :
              u \in E.users, b \in E.imports,
              x \in {t \in E.clock : t >= d.now} \X E.refreshes \X E.api}
      [] op = "export_to_spotify" ->
           UNION {{Request(op, u, b.list_id, NoId, b,
                           [t |-> x[1], token_data |-> x[2], items |-> items,
                            api_ok |-> x[3], fail_at |-> x[4]]) :
                     u \in E.users,
                     items \in OrderedByPosition(ItemsOf(d, b.list_id)),
                     x \in {t \in E.clock : t >= d.now} \X E.refreshes \X E.api
                            \X E.failures} :
                  b \in E.exports}
      [] op = "index" ->
           {Request(op, u, NoId, NoId, <<>>, <<>>) : u \in E.users}
      [] op \in {"user_profile", "get_user_liked_lists"} ->
           {Request(op, u, NoId, NoId, b, <<>>) : u \in E.users, b \in E.usernames}
      [] op = "unified_search" ->
           UNION {{Request(op, u, NoId, NoId, b, picked) :
                     u \in E.users,
                     picked \in IF Present(b) THEN Picks(SearchHits(d, b), SearchLimit)
                                 ELSE {{}}} :
                  b \in E.queries}
      [] op = "item_details" ->
           UNION {{Request(op, u, NoId, NoId, b, picked) :
                     u \in E.users,
                     picked \in IF Present(b.type) /\ Present(b.name) /\ Present(b.artist)
                                 THEN Picks(ListsHolding(d, b), MaxDetailLists)
                                 ELSE {{}}} :
                  b \in E.details}
      [] op = "spotify_callback" ->
           {Request(op, u, NoId, NoId, b,
                    [t |-> x[1], token_data |-> x[2], spotify_user |-> x[3]]) :
              u \in E.users, b \in [error : E.errors, code : E.codes],
              x \in {t \in E.clock : t >= d.now} \X E.exchanges \X E.spotify_users}
      [] op = "disconnect_spotify" ->
           {Request(op, u, NoId, NoId, <<>>, <<>>) : u \in E.users}
      [] op \in {"follow_user", "unfollow_user"} ->
           {Request(op, u, NoId, NoId, v, <<>>) : u \in E.users, v \in Users}
      [] op \in {"save_album_rating", "save_song_rating"} ->
           {Request(op, u, NoId, NoId, b, <<>>) : u \in E.users, b \in E.ratings}
      [] op = "save_favorites" ->
           {Request(op, u, NoId, NoId, b, <<>>) :
              u \in E.users, b \in [favorite_type : E.fav_types, items : E.fav_items]}
      [] op = "remove_favorite" ->
           {Request(op, u, NoId, NoId, b, <<>>) :
              u \in E.users,
              b \in [favorite_type : E.fav_types, position : E.fav_positions]}
  IN {q \in All : Role(d, q.user, q.list_id) \in E.roles}

\* The actions: one request of the route, from environment E, is served.
CreateList(E) ==
  \E q \in RequestsOf(DB, E, "create_list") : Apply(Serve(DB, q))

ViewList(E) ==
  \E q \in RequestsOf(DB, E, "view_list") : Apply(Serve(DB, q))

EditList(E) ==
  \E q \in RequestsOf(DB, E, "edit_list") : Apply(Serve(DB, q))

AddToList(E) ==
  \E q \in RequestsOf(DB, E, "add_to_list") : Apply(Serve(DB, q))

RemoveFromList(E) ==
  \E q \in RequestsOf(DB, E, "remove_from_list") : Apply(Serve(DB, q))

UpdateListItem(E) ==
  \E q \in RequestsOf(DB, E, "update_list_item") : Apply(Serve(DB, q))

DeleteList(E) ==
  \E q \in RequestsOf(DB, E, "delete_list") : Apply(Serve(DB, q))

UpdateListSettings(E) ==
  \E q \in RequestsOf(DB, E, "update_list_settings") : Apply(Serve(DB, q))

DuplicateList(E) ==
  \E q \in RequestsOf(DB, E, "duplicate_list") : Apply(Serve(DB, q))

ReorderList(E) ==
  \E q \in RequestsOf(DB, E, "reorder_list") : Apply(Serve(DB, q))

ReorderListAll(E) ==
  \E q \in RequestsOf(DB, E, "reorder_list_all") : Apply(Serve(DB, q))

ImportSpotifyPlaylist(E) ==
  \E q \in RequestsOf(DB, E, "import_spotify_playlist") : Apply(Serve(DB, q))

ExportToSpotify(E) ==
  \E q \in RequestsOf(DB, E, "export_to_spotify") : Apply(Serve(DB, q))

Index(E) ==
  \E q \in RequestsOf(DB, E, "index") : Apply(Serve(DB, q))

UserProfile(E) ==
  \E q \in RequestsOf(DB, E, "user_profile") : Apply(Serve(DB, q))

UnifiedSearch(E) ==
  \E q \in RequestsOf(DB, E, "unified_search") : Apply(Serve(DB, q))

ItemDetails(E) ==
  \E q \in RequestsOf(DB, E, "item_details") : Apply(Serve(DB, q))

GetUserLikedLists(E) ==
  \E q \in RequestsOf(DB, E, "get_user_liked_lists") : Apply(Serve(DB, q))

SpotifyCallback(E) ==
  \E q \in RequestsOf(DB, E, "spotify_callback") : Apply(Serve(DB, q))

DisconnectSpotify(E) ==
  \E q \in RequestsOf(DB, E, "disconnect_spotify") : Apply(Serve(DB, q))

LikeList(E) ==
  \E q \in RequestsOf(DB, E, "like_list") : Apply(Serve(DB, q))

UnlikeList(E) ==
  \E q \in RequestsOf(DB, E, "unlike_list") : Apply(Serve(DB, q))

FollowUser(E) ==
  \E q \in RequestsOf(DB, E, "follow_user") : Apply(Serve(DB, q))

UnfollowUser(E) ==
  \E q \in RequestsOf(DB, E, "unfollow_user") : Apply(Serve(DB, q))

SaveAlbumRating(E) ==
  \E q \in RequestsOf(DB, E, "save_album_rating") : Apply(Serve(DB, q))

SaveSongRating(E) ==
  \E q \in RequestsOf(DB, E, "save_song_rating") : Apply(Serve(DB, q))

SaveFavorites(E) ==
  \E q \in RequestsOf(DB, E, "save_favorites") : Apply(Serve(DB, q))

RemoveFavorite(E) ==
  \E q \in RequestsOf(DB, E, "remove_favorite") : Apply(Serve(DB, q))


\* ------------------------------------------------------------ request sets
\* Every JSON body the handlers distinguish.
SettingsBodies ==
  [title : Optional(Titles), description : Optional(Descriptions),
   is_public : Optional(BOOLEAN), is_ranked : Optional(BOOLEAN)]
OrderEntries == [item_id : ItemIds, position : PosInputs]
OrderBodies == UNION {[1..n -> OrderEntries] : n \in 0..MaxOrder}
ImportBodies ==
  [playlist_id : Optional(PlaylistIds), list_id : ListIds \cup {NoId},
   new_list_title : Optional(Titles)]
ExportBodies ==
  [list_id : ListIds \cup {NoId}, playlist_id : Optional(PlaylistIds),
   new_playlist_name : Optional(Titles)]
FailPoints == 0..(MaxItems + 1)
Queries == Optional({"X", "A"})
DetailArgs ==
  [type : Optional({"song", "album"}), name : Optional({"n1", "al1"}),
   artist : Optional({"a1"})]
Forms ==
  [title : Titles, description : Descriptions,
   is_ranked : BOOLEAN, is_public : BOOLEAN]
Times == 0..MaxTime
RefreshResponses == TokenResponses(Optional(RefreshTokens))
ExchangeResponses == TokenResponses({{r} : r \in RefreshTokens})

\* The unrestricted environment.
AnyRequest ==
  [users |-> Requesters, roles |-> {"anon", "owner", "other"},
   lists |-> ListIds, items |-> ItemIds,
   forms |-> Forms, tracks |-> TrackData,
   positions |-> PosInputs, settings |-> SettingsBodies,
   orders |-> OrderBodies, imports |-> ImportBodies,
   exports |-> ExportBodies, failures |-> FailPoints,
   usernames |-> Users \cup {"nobody"}, queries |-> Queries,
   details |-> DetailArgs, clock |-> Times,
   refreshes |-> RefreshResponses, api |-> BOOLEAN,
   errors |-> Optional({"access_denied"}), codes |-> Optional({"code"}),
   exchanges |-> ExchangeResponses, spotify_users |-> {Null, "s1"},
   ratings |-> RatingBodies, fav_types |-> FavTypeInputs,
   fav_items |-> FavBodies, fav_positions |-> FavPositions]

\* Owners at work: users create private lists titled X, add track Tr1 to
\* their own lists and link their Spotify account at time 0.  (A request
\* that names no list counts as role "other".)
Setup ==
  [AnyRequest EXCEPT
     !.users = Users, !.roles = {"owner", "other"},
     !.forms = {[title |-> <<"X">>, description |-> <<"d1">>,
                 is_ranked |-> TRUE, is_public |-> FALSE]},
     !.tracks = {Tr1},
     !.clock = {0}, !.errors = {{}}, !.codes = {{"code"}},
     !.exchanges = {x \in ExchangeResponses :
                      x.ok /\ x.access_token = "at1" /\ x.refresh_token = {"rt1"}},
     !.spotify_users = {"s1"}]

Owners == [Setup EXCEPT !.roles = {"owner"}]

\* Everybody but the owner: logged-in users at lists that are not theirs
\* (or do not exist) and requests without a session, with one track,
\* settings of at most one key and orders of at most one entry.
Strangers ==
  [AnyRequest EXCEPT
     !.roles = {"anon", "other"}, !.tracks = {Tr1},
     !.settings = {b \in SettingsBodies :
                     Cardinality(b.title \cup b.description) +
                       Cardinality(b.is_public \cup b.is_ranked) <= 1},
     !.orders = {o \in OrderBodies : Len(o) <= 1},
     !.imports = {b \in ImportBodies : b.list_id # NoId /\ ~Present(b.new_list_title)},
     !.clock = {0}, !.refreshes = {NoTokenData}]

\* Requests without a session.
Anonymous == [Strangers EXCEPT !.users = {Anon}]

\* User A at A's own lists; user B at lists that are not B's.
UserA == [Owners EXCEPT !.users = {"A"}]
UserB == [Strangers EXCEPT !.users = {"B"}]

\* Spec: user A sets lists up; user B, who may link a Spotify account and
\* owns no list, sends every list and item request; requests without a
\* session ask for a new list and for a new item.
Next ==
  \/ CreateList([Setup EXCEPT !.users = {"A"}])
  \/ AddToList(UserA)
  \/ SpotifyCallback([Setup EXCEPT !.users = {"B"}])
  \/ CreateList(Anonymous)
  \/ AddToList(Anonymous)
  \/ EditList(UserB)
  \/ AddToList(UserB)
  \/ RemoveFromList(UserB)
  \/ UpdateListItem(UserB)
  \/ DeleteList(UserB)
  \/ UpdateListSettings(UserB)
  \/ ReorderList(UserB)
  \/ ReorderListAll(UserB)
  \/ ImportSpotifyPlaylist(UserB)

Spec == Init /\ [][Next]_vars


\* ------------------------------------------------------------ AddRemoveSpec
\* Owners add a track to their lists and remove by any item id; nobody
\* reorders.
AddRemoveNext ==
  \/ CreateList(Setup)
  \/ AddToList(Owners)
  \/ RemoveFromList(Owners)

AddRemoveSpec == Init /\ [][AddRemoveNext]_vars

\* ------------------------------------------------------------ ReadSpec
\* User A creates lists from two forms (one public, one private, with
\* different titles, descriptions and rankings), adds a track to them and
\* removes items; user B views and duplicates every list.
ReadForms ==
  {f \in Forms : /\ (f.title = <<"X">>) = (f.description = <<"d1">>)
                 /\ (f.title = <<"X">>) = f.is_ranked
                 /\ (f.title = <<"X">>) = f.is_public}
Authors ==
  [Setup EXCEPT !.users = {"A"}, !.roles = {"owner", "other"},
                !.forms = ReadForms]
Visitor == [AnyRequest EXCEPT !.users = {"B"}]

\* Every requester of the read routes.
Readers == AnyRequest

ReadNext ==
  \/ CreateList(Authors)
  \/ AddToList(Authors)
  \/ RemoveFromList(Authors)
  \/ ViewList(Visitor)
  \/ DuplicateList(Visitor)

ReadSpec == Init /\ [][ReadNext]_vars

\* ------------------------------------------------------------ SocialSpec
\* Everybody likes and unlikes lists, follows and unfollows users.
SocialNext ==
  \/ LikeList(AnyRequest)
  \/ UnlikeList(AnyRequest)
  \/ FollowUser(AnyRequest)
  \/ UnfollowUser(AnyRequest)

SocialSpec == Init /\ [][SocialNext]_vars

\* ------------------------------------------------------------ ScenarioSpec
\* User A creates a private ranked list, adds Tr1, then Tr2, removes the
\* first item and makes the list public; all along user B, who may link a
\* Spotify account, views the list and sends every list and item request
\* at it.
AddsTr2 == [UserA EXCEPT !.tracks = {Tr2}]
RemovesFirst == [UserA EXCEPT !.items = {1}]
Publishes ==
  [UserA EXCEPT !.settings = {b \in SettingsBodies :
                                /\ b.is_public = {TRUE}
                                /\ ~Present(b.title) /\ ~Present(b.description)
                                /\ ~Present(b.is_ranked)}]
FirstRemoved(d) == d.next_item_id = 3 /\ \A i \in d.list_items : i.id # 1

ScenarioNext ==
  \/ lists = {} /\ CreateList([Setup EXCEPT !.users = {"A"}])
  \/ next_item_id = 1 /\ AddToList(UserA)
  \/ next_item_id = 2 /\ AddToList(AddsTr2)
  \/ next_item_id = 3 /\ RemoveFromList(RemovesFirst)
  \/ FirstRemoved(DB) /\ UpdateListSettings(Publishes)
  \/ SpotifyCallback([Setup EXCEPT !.users = {"B"}])
  \/ ViewList(Visitor)
  \/ AddToList(UserB)
  \/ RemoveFromList(UserB)
  \/ UpdateListItem(UserB)
  \/ DeleteList(UserB)
  \/ UpdateListSettings(UserB)
  \/ ReorderList(UserB)
  \/ ReorderListAll(UserB)
  \/ ImportSpotifyPlaylist(UserB)

ScenarioSpec == Init /\ [][ScenarioNext]_vars

\* ------------------------------------------------------------ RatingSpec
\* Both users rate both albums; user A rates one song.
AlbumRaters ==
  [AnyRequest EXCEPT !.users = Users,
                     !.ratings = {b \in RatingBodies : b.album_art_url = "u1"}]
SongRater ==
  [AlbumRaters EXCEPT !.users = {"A"},
                      !.ratings = {b \in @ : b.artist_name = "a1"}]

RatingNext ==
  \/ SaveAlbumRating(AlbumRaters)
  \/ SaveSongRating(SongRater)

RatingSpec == Init /\ [][RatingNext]_vars

\* ------------------------------------------------------------ FavSpec
\* User A saves song favorites of every length (one item repeated) and
\* removes the first; both users save at most one favorite of either
\* type, or of an invalid type, and remove the first.
FavA ==
  [AnyRequest EXCEPT !.users = {"A"}, !.fav_types = {"song"},
                     !.fav_items = {b \in FavBodies : \A i \in 1..Len(b) : b[i] = F1},
                     !.fav_positions = {1}]
FavOthers ==
  [AnyRequest EXCEPT !.users = Users,
                     !.fav_items = {b \in FavBodies :
                                      Len(b) <= 1 /\ \A i \in 1..Len(b) : b[i] = F2},
                     !.fav_positions = {1}]

FavNext ==
  \/ SaveFavorites(FavA)
  \/ RemoveFavorite(FavA)
  \/ SaveFavorites(FavOthers)
  \/ RemoveFavorite(FavOthers)

FavSpec == Init /\ [][FavNext]_vars

\* ------------------------------------------------------------ TokenSpec
\* Both users link their Spotify account at time 0 (the token lasts one
\* tick) and disconnect it; user A imports playlist p2 into a new list at
\* any later time, the token endpoint refusing or answering with token
\* at2, with or without a new refresh token.
Linkers == [Setup EXCEPT !.roles = {"other"}]
Importer ==
  [AnyRequest EXCEPT
     !.users = {"A"}, !.roles = {"other"},
     !.imports = {b \in ImportBodies :
                    /\ b.playlist_id = {"p2"} /\ b.list_id = NoId
                    /\ b.new_list_title = {}},
     !.refreshes = {x \in RefreshResponses : x.ok => x.access_token = "at2"}]

TokenNext ==
  \/ SpotifyCallback(Linkers)
  \/ ImportSpotifyPlaylist(Importer)
  \/ DisconnectSpotify(Linkers)

TokenSpec == Init /\ [][TokenNext]_vars

\* ------------------------------------------------------------ OwnerSpec
\* User A creates lists; sets the title Y and publishes list 1; in list
\* 2, adds track Tr2, updates, moves and removes item 1, and imports
\* playlist p2 after linking the Spotify account.  User B copies and
\* likes list 1 and deletes the copies.
Creator == [Setup EXCEPT !.users = {"A"}]
Keeper ==
  [Owners EXCEPT
     !.users = {"A"}, !.lists = {1},
     !.settings = {b \in SettingsBodies :
                     /\ b.description = {} /\ b.is_ranked = {}
                     /\ b.title = {<<"Y">>} /\ b.is_public = {TRUE}}]
ItemKeeper ==
  [Owners EXCEPT
     !.users = {"A"}, !.lists = {2}, !.items = {1}, !.tracks = {Tr2},
     !.positions = {MaxPos},
     !.orders = {o \in OrderBodies :
                   Len(o) = 1 /\ \A i \in 1..Len(o) :
                     o[i].item_id = 1 /\ o[i].position = MaxPos},
     !.imports = {b \in ImportBodies :
                    /\ b.playlist_id = {"p2"} /\ b.list_id # NoId
                    /\ b.new_list_title = {}},
     !.refreshes = {NoTokenData}, !.api = {TRUE}]
Guest == [Setup EXCEPT !.users = {"B"}, !.lists = {1}]
CopyOwner == [Owners EXCEPT !.users = {"B"}]

OwnerNext ==
  \/ CreateList(Creator)
  \/ UpdateListSettings(Keeper)
  \/ AddToList(ItemKeeper)
  \/ UpdateListItem(ItemKeeper)
  \/ ReorderList(ItemKeeper)
  \/ ReorderListAll(ItemKeeper)
  \/ RemoveFromList(ItemKeeper)
  \/ SpotifyCallback(Creator)
  \/ ImportSpotifyPlaylist(ItemKeeper)
  \/ DeleteList(CopyOwner)
  \/ DuplicateList(Guest)
  \/ LikeList(Guest)

OwnerSpec == Init /\ [][OwnerNext]_vars

\* ------------------------------------------------------------ interleaving
\* like_list, follow_user and add_to_list read the store, decide, and
\* write with a later statement; no lock or transaction spans the two, so
\* another request can be served in between.  A request is served in two
\* steps: it reads (and answers at once if it returns before its insert),
\* then it inserts with what it read.

\* The request returns before its insert.
ReturnsEarly(d, q) ==
  \/ q.user = Anon
  \/ q.op = "like_list" /\ d.list_likes[<<q.user, q.list_id>>] > 0
  \/ q.op = "follow_user"
       /\ (q.user = q.body \/ d.followers[<<q.user, q.body>>] > 0)
  \/ q.op = "add_to_list" /\ VerifyOwnership(d, q.list_id, q.user) = {}

\* What the request carries from its read to its insert: next_position
\* for add_to_list.
Pending(d, q) ==
  [op |-> q.op, user |-> q.user, list_id |-> q.list_id, body |-> q.body,
   read |-> IF q.op = "add_to_list" THEN NextPosition(d, q.list_id) ELSE 0]

\* The insert of pending request p at store d, and the response.
Insert(d, p) ==
  CASE p.op = "like_list" -> like_list_insert(d, p.user, p.list_id)
    [] p.op = "follow_user" -> follow_user_insert(d, p.user, p.body)
    [] p.op = "add_to_list" ->
         add_to_list_insert(d, p.user, p.list_id, p.body, p.read)

\* A worker takes a request of route op and runs it up to its insert.
Begin(E, op) ==
  \E w \in Workers : \E q \in RequestsOf(DB, E, op) :
    /\ inflight[w].op = "idle"
    /\ IF ReturnsEarly(DB, q)
         THEN Apply(Serve(DB, q))
         ELSE /\ inflight' = [inflight EXCEPT ![w] = Pending(DB, q)]
              /\ UNCHANGED <<lists, list_items, list_likes, followers, profiles,
                             album_ratings, song_ratings, profile_favorites,
                             now, next_list_id, next_item_id, resp>>

\* A worker runs the insert of its request and answers.
Finish(op) ==
  \E w \in Workers :
    /\ inflight[w].op = op
    /\ Write(Insert(DB, inflight[w]))
    /\ inflight' = [inflight EXCEPT ![w] = Idle]

\* ------------------------------------------------------------ LikeRaceSpec
\* User B likes list 1 and follows user A or themselves, and user A
\* follows B, the requests running side by side.
Fan == [Setup EXCEPT !.users = {"B"}, !.lists = {1}]
Followed == [Setup EXCEPT !.users = {"A"}]

LikeRaceNext ==
  \/ Begin(Fan, "like_list")
  \/ Finish("like_list")
  \/ Begin(Fan, "follow_user")
  \/ Begin(Followed, "follow_user")
  \/ Finish("follow_user")

LikeRaceSpec == Init /\ [][LikeRaceNext]_vars

\* ------------------------------------------------------------ AddRaceSpec
\* User A creates lists and adds track Tr1 to list 1, the requests
\* running side by side.
ListMaker == [Setup EXCEPT !.users = {"A"}, !.lists = {1}]

AddRaceNext ==
  \/ CreateList(ListMaker)
  \/ Begin(ListMaker, "add_to_list")
  \/ Finish("add_to_list")

AddRaceSpec == Init /\ [][AddRaceNext]_vars

\* ------------------------------------------------------------ UpdateSpec
\* Both users create lists and add track Tr1 to their own; user A swaps
\* any item id for track Tr2 through a list of their own.
Swappers == [Owners EXCEPT !.users = {"A"}, !.tracks = {Tr2}]

UpdateNext ==
  \/ CreateList(Setup)
  \/ AddToList(Owners)
  \/ UpdateListItem(Swappers)

UpdateSpec == Init /\ [][UpdateNext]_vars

\* ------------------------------------------------------------ ImportSpec
\* User A creates lists, adds track Tr1 to them, links the Spotify
\* account and imports either playlist into a list of their own or into
\* a new list, the token being valid and the service answering.
Importing ==
  [Creator EXCEPT
     !.imports = {b \in ImportBodies : b.playlist_id # {} /\ b.new_list_title = {}},
     !.refreshes = {NoTokenData}, !.api = {TRUE}]

ImportNext ==
  \/ CreateList(Creator)
  \/ AddToList(Creator)
  \/ SpotifyCallback(Creator)
  \/ ImportSpotifyPlaylist(Importing)

ImportSpec == Init /\ [][ImportNext]_vars

\* ------------------------------------------------------------ statements
\* delete_list, import_spotify_playlist and duplicate_list write with
\* several statements, one after the other and outside any transaction,
\* so another request can be served, or the request can die, between two
\* of them.  Such a request is served in steps: it reads (and makes its
\* lists row, if it makes one), then runs its remaining statements one
\* per step, then answers.

\* A write statement: delete the items of a list, delete a lists row, or
\* insert an item.
Statement(kind, list_id, position, track) ==
  [kind |-> kind, list_id |-> list_id, position |-> position, track |-> track]
NoTrack == [track_id |-> Null, track_name |-> Null, artist_name |-> Null,
            album_name |-> Null, album_art_url |-> Null]

\* The _rowFirst variant deletes the lists row with the first statement
\* and the items with the second; the _atOnce variant deletes both with
\* the first.
DeleteStatements_rowFirst(list_id) ==
  <<Statement("delete_list", list_id, 0, NoTrack),
    Statement("delete_items", list_id, 0, NoTrack)>>

DeleteStatements_atOnce(list_id) ==
  <<Statement("delete_both", list_id, 0, NoTrack),
    Statement("delete_list", list_id, 0, NoTrack)>>

\* The two deletes of delete_list.
DeleteStatements(list_id) ==
  <<Statement("delete_items", list_id, 0, NoTrack),
    Statement("delete_list", list_id, 0, NoTrack)>>

\* The insert loops: one insert per track, at first, first + 1, ...; and
\* one insert per source row, at the position of the row.  The _oneInsert
\* variant of the first inserts nothing after the first track.
InsertStatements_oneInsert(list_id, tracks, first) ==
  [k \in 1..(IF tracks = <<>> THEN 0 ELSE 1) |->
     Statement("insert", list_id, first + (k - 1), tracks[k])]

InsertStatements(list_id, tracks, first) ==
  [k \in 1..Len(tracks) |->
     Statement("insert", list_id, first + (k - 1), tracks[k])]

CopyStatements(new_list_id, items) ==
  [k \in 1..Len(items) |->
     Statement("insert", new_list_id, items[k].position,
               [track_id |-> items[k].spotify_track_id,
                track_name |-> items[k].track_name,
                artist_name |-> items[k].artist_name,
                album_name |-> items[k].album_name,
                album_art_url |-> items[k].album_art_url])]

\* The store after the reads of request q at store d, the lists row of
\* an import without target or of a copy included.
Started(d, q) ==
  LET u == q.user
  IN CASE q.op = "delete_list" -> d
       [] q.op = "duplicate_list" ->
            [d EXCEPT !.lists = @ \cup {CopyOfList(d.next_list_id, u,
                                           CHOOSE l \in ListById(d, q.list_id) : TRUE)},
                      !.next_list_id = @ + 1]
       [] q.op = "import_spotify_playlist" ->
            LET d0 == get_user_spotify_client(d, u, q.env.t, q.env.token_data).db
            IN IF q.body.list_id # NoId THEN d0
               ELSE [d0 EXCEPT !.lists = Serve(d, q).db.lists, !.next_list_id = @ + 1]

\* The statements request q has still to run after its reads at store d.
Statements(d, q) ==
  CASE q.op = "delete_list" -> DeleteStatements(q.list_id)
    [] q.op = "duplicate_list" -> CopyStatements(d.next_list_id, q.env)
    [] q.op = "import_spotify_playlist" ->
         LET tracks == FetchTracks(q.env.playlist.pages, 1)
         IN IF q.body.list_id # NoId
              THEN InsertStatements(q.body.list_id, tracks,
                                    NextPosition(d, q.body.list_id))
              ELSE InsertStatements(d.next_list_id, tracks, 1)

\* The effect of one statement on the store.
Execute(d, st) ==
  CASE st.kind = "delete_items" ->
         [d EXCEPT !.list_items = {i \in @ : i.list_id # st.list_id}]
    [] st.kind = "delete_list" ->
         [d EXCEPT !.lists = {l \in @ : l.id # st.list_id}]
    [] st.kind = "delete_both" ->
         [d EXCEPT !.list_items = {i \in @ : i.list_id # st.list_id},
                   !.lists = {l \in @ : l.id # st.list_id}]
    [] st.kind = "insert" ->
         [d EXCEPT !.list_items = @ \cup
                     {ItemRow(d.next_item_id, st.list_id, st.position,
                              st.track.track_id, st.track.track_name,
                              st.track.artist_name, st.track.album_name,
                              st.track.album_art_url)},
                   !.next_item_id = @ + 1]

\* The request is served in one step: it returns before its statements,
\* or has none to run.
InOneStep(d, q) ==
  \/ Serve(d, q).resp.status # 200
  \/ Statements(d, q) = <<>>

\* The first idle worker takes a request of route op and runs it up to
\* its statements; `read' counts the statements run, `resp' is the
\* answer the request gives after the last.
Start(E, op) ==
  \E w \in Workers : \E q \in RequestsOf(DB, E, op) :
    /\ inflight[w].op = "idle"
    /\ \A v \in 1..(w - 1) : inflight[v].op # "idle"
    /\ IF InOneStep(DB, q)
         THEN Apply(Serve(DB, q))
         ELSE /\ Store(Started(DB, q))
              /\ resp' = resp
              /\ inflight' = [inflight EXCEPT ![w] =
                                [op |-> q.op, user |-> q.user, list_id |-> q.list_id,
                                 body |-> Statements(DB, q), read |-> 0,
                                 resp |-> Serve(DB, q).resp]]

\* A worker runs the next statement of its request, and answers if it
\* was the last.
Step(op) ==
  \E w \in Workers :
    LET p == inflight[w]
        d == Execute(DB, p.body[p.read + 1])
    IN /\ p.op = op
       /\ IF p.read + 1 = Len(p.body)
            THEN Write(Result(d, p.resp)) /\ inflight' = [inflight EXCEPT ![w] = Idle]
            ELSE /\ Store(d)
                 /\ resp' = resp
                 /\ inflight' = [inflight EXCEPT ![w].read = @ + 1]

\* The request of a worker dies between two statements: the store stays
\* as the statements run so far left it, the answer is an error (the
\* response record keeps the number of statements run in `count').
Crash(op) ==
  \E w \in Workers :
    LET p == inflight[w]
    IN /\ p.op = op
       /\ resp' = [Response(op, p.user, p.list_id, NoId, 500, "error")
                     EXCEPT !.count = p.read]
       /\ inflight' = [inflight EXCEPT ![w] = Idle]
       /\ UNCHANGED <<lists, list_items, list_likes, followers, profiles,
                      album_ratings, song_ratings, profile_favorites,
                      now, next_list_id, next_item_id>>

\* ------------------------------------------------------------ DeleteSpec
\* User A creates private lists, adds track Tr1 to list 1 and deletes
\* list 1, the delete running statement by statement or dying on the
\* way; meanwhile A views list 1.
Deleter == [UserA EXCEPT !.lists = {1}]
Viewer == [AnyRequest EXCEPT !.users = {"A"}, !.lists = {1}]

DeleteNext ==
  \/ CreateList(Creator)
  \/ AddToList(Deleter)
  \/ Start(Deleter, "delete_list")
  \/ Step("delete_list")
  \/ Crash("delete_list")
  \/ ViewList(Viewer)

DeleteSpec == Init /\ [][DeleteNext]_vars

\* ------------------------------------------------------------ ObserveSpec
\* User A creates lists, links the streaming account, adds track Tr1 to
\* list 1, imports playlist p1 into list 1 and deletes list 1, one of the two at a time running
\* statement by statement; meanwhile A views list 1.
Filler ==
  [Deleter EXCEPT !.imports = {b \in ImportBodies :
                                 /\ b.playlist_id = {"p1"} /\ b.list_id = 1
                                 /\ b.new_list_title = {}},
                  !.refreshes = {NoTokenData}, !.api = {TRUE}, !.clock = {0}]

\* No request is on its way.
Quiet == \A w \in Workers : inflight[w].op = "idle"

ObserveNext ==
  \/ CreateList(Creator)
  \/ SpotifyCallback(Creator)
  \/ AddToList(Deleter)
  \/ Quiet /\ Start(Deleter, "delete_list")
  \/ Step("delete_list")
  \/ Quiet /\ Start(Filler, "import_spotify_playlist")
  \/ Step("import_spotify_playlist")
  \/ ViewList(Viewer)

ObserveSpec == Init /\ [][ObserveNext]_vars

\* ------------------------------------------------------------ token refresh
\* get_user_spotify_client reads the profiles row, asks the token
\* endpoint when the token has expired, and updates the row with the
\* answer in a separate statement; the request goes on with the token of
\* the answer.

\* Request q at store d gets as far as the update of the row.
Refreshes(d, q) ==
  LET c == get_user_spotify_client(d, q.user, q.env.t, q.env.token_data)
  IN q.user # Anon /\ c.refreshed /\ c.sp # Null

\* The request a worker carries from the answer of the token endpoint
\* to the update of the row.
Refreshing(q) ==
  [op |-> "get_user_spotify_client", user |-> q.user, list_id |-> q.list_id,
   body |-> q, read |-> 0]

\* The update of the row of pending request p at store d, and the rest
\* of the request, which holds the client built with the token of the
\* answer.  The _firstWins variant leaves the row alone when it holds a
\* token that has not expired.
PersistRefresh_firstWins(d, p) ==
  LET q == p.body
      t == q.env.t
      d1 == IF d.profiles[q.user].spotify_token_expires > t THEN d
            ELSE [d EXCEPT !.profiles[q.user] =
                     RefreshedProfile(@, t + q.env.token_data.expires_in,
                                      q.env.token_data)]
      r == Serve(d1, q)
  IN Result([r.db EXCEPT !.now = IF d.now > t THEN d.now ELSE t], r.resp)

PersistRefresh(d, p) ==
  LET q == p.body
      t == q.env.t
      d1 == [d EXCEPT !.profiles[q.user] =
               RefreshedProfile(@, t + q.env.token_data.expires_in,
                                q.env.token_data)]
      r == Serve(d1, q)
  IN Result([r.db EXCEPT !.now = IF d.now > t THEN d.now ELSE t], r.resp)

\* A worker takes a request of route op and runs it up to the update of
\* the profiles row, or to its end if it does not get there.
BeginRefresh(E, op) ==
  \E w \in Workers : \E q \in RequestsOf(DB, E, op) :
    /\ inflight[w].op = "idle"
    /\ \A v \in 1..(w - 1) : inflight[v].op # "idle"
    /\ IF Refreshes(DB, q)
         THEN /\ inflight' = [inflight EXCEPT ![w] = Refreshing(q)]
              /\ UNCHANGED <<lists, list_items, list_likes, followers, profiles,
                             album_ratings, song_ratings, profile_favorites,
                             now, next_list_id, next_item_id, resp>>
         ELSE Apply(Serve(DB, q))

\* A worker updates the row and runs the rest of its request.
FinishRefresh ==
  \E w \in Workers :
    /\ inflight[w].op = "get_user_spotify_client"
    /\ Write(PersistRefresh(DB, inflight[w]))
    /\ inflight' = [inflight EXCEPT ![w] = Idle]

\* ------------------------------------------------------------ RefreshRaceSpec
\* User A links the streaming account at time 0 (the token lasts one
\* tick), imports playlist p2 into a new list at any time, the imports
\* running side by side and the token endpoint answering with token at1
\* and refresh token rt2 or with token at2 alone, and disconnects the
\* account.
Refresher ==
  [Importer EXCEPT
     !.refreshes = {x \in RefreshResponses :
                      /\ x.ok
                      /\ x.access_token = "at1" => x.refresh_token = {"rt2"}
                      /\ x.access_token = "at2" => x.refresh_token = {}},
     !.api = {TRUE}]

RefreshRaceNext ==
  \/ SpotifyCallback(Creator)
  \/ BeginRefresh(Refresher, "import_spotify_playlist")
  \/ FinishRefresh
  \/ DisconnectSpotify(Creator)

RefreshRaceSpec == Init /\ [][RefreshRaceNext]_vars

\* ------------------------------------------------------------ ExportSpec
\* User A creates private lists and adds track Tr1 and a track without
\* id to list 1; both users link the streaming account at time 0 and
\* export list 1 to a new playlist or to playlist p1, all writes on the
\* service going through or the third one failing.
Stocker == [UserA EXCEPT !.lists = {1}, !.tracks = {Tr1, LocalFile}]
Exporters ==
  [Setup EXCEPT
     !.exports = {b \in ExportBodies :
                    /\ b.list_id = 1 /\ b.new_playlist_name = {}
                    /\ b.playlist_id \in {{}, {"p1"}}},
     !.failures = {0, 3},
     !.refreshes = {NoTokenData}, !.api = {TRUE}]

ExportNext ==
  \/ CreateList(Creator)
  \/ AddToList(Stocker)
  \/ SpotifyCallback(Setup)
  \/ ExportToSpotify(Exporters)

ExportSpec == Init /\ [][ExportNext]_vars

\* ------------------------------------------------------------ PrivacySpec
\* Users A and B create public lists titled X and private lists titled
\* Y and add track Tr1 to their lists; B likes lists; B and a visitor
\* without session open the pages and API routes that show lists.
Writers == [Authors EXCEPT !.users = Users]
Liker == [AnyRequest EXCEPT !.users = {"B"}]
Onlookers ==
  [AnyRequest EXCEPT
     !.users = {"B", Anon}, !.usernames = {"A"}, !.queries = {{"Y"}, {"X"}},
     !.details = {a \in DetailArgs :
                    a.type = {"song"} /\ a.name = {"n1"} /\ a.artist = {"a1"}}]

PrivacyNext ==
  \/ CreateList(Writers)
  \/ AddToList(Owners)
  \/ LikeList(Liker)
  \/ Index(Onlookers)
  \/ UserProfile(Onlookers)
  \/ UnifiedSearch(Onlookers)
  \/ ItemDetails(Onlookers)
  \/ GetUserLikedLists(Onlookers)
  \/ ViewList(Onlookers)

PrivacySpec == Init /\ [][PrivacyNext]_vars

\* ============================================================ PROPERTIES

\* The routes that change a list or its items.
MutatingOps ==
  {"add_to_list", "remove_from_list", "update_list_item", "delete_list",
   "update_list_settings", "reorder_list", "reorder_list_all",
   "import_spotify_playlist"}

\* q is sent by a logged-in user at a list that exists and is another's.
Foreign(d, q) ==
  /\ q.user \in Users
  /\ \E l \in d.lists : l.id = q.list_id /\ l.user_id # q.user

\* The status import_spotify_playlist answers before or at its ownership
\* check when the target is not the caller's list.
ImportDenial(d, q) ==
  IF get_user_spotify_client(d, q.user, q.env.t, q.env.token_data).sp = Null THEN 401
  ELSE IF ~Present(q.body.playlist_id) THEN 400
  ELSE IF q.env.playlist = ApiError THEN 500
  ELSE 403

\* C1 as stated: every mutating request of a logged-in user at a list of
\* another user is answered 403 and leaves lists and list_items unchanged.
C1_AsStated ==
  \A op \in MutatingOps : \A q \in RequestsOf(DB, Strangers, op) :
    Foreign(DB, q) =>
      LET r == Serve(DB, q)
      IN /\ r.resp.status = 403
         /\ r.db.lists = lists
         /\ r.db.list_items = list_items

\* C1 (amended): every mutating request of a logged-in user at a list of
\* another user leaves lists and list_items unchanged and is refused: with
\* 403 on the seven list routes; on import_spotify_playlist with 401 when
\* the caller's Spotify client does not resolve, 400 without a playlist
\* id, 500 when the playlist cannot be fetched, and 403 otherwise.
T_C1_ForeignMutationDenied ==
  \A op \in MutatingOps : \A q \in RequestsOf(DB, Strangers, op) :
    Foreign(DB, q) =>
      LET r == Serve(DB, q)
      IN /\ r.resp.status =
              (IF op = "import_spotify_playlist" THEN ImportDenial(DB, q) ELSE 403)
         /\ r.db.lists = lists
         /\ r.db.list_items = list_items

\* A user with a linked Spotify account was refused (403) the removal of
\* an item of another user's list.
W_C1_ForeignRemoveDenied ==
  /\ resp.op = "remove_from_list" /\ resp.status = 403 /\ resp.user \in Users
  /\ \E i \in list_items : i.id = resp.item_id /\ i.list_id = resp.list_id
  /\ \E l \in lists : l.id = resp.list_id /\ l.user_id # resp.user
  /\ profiles[resp.user].spotify_access_token # Null

\* The item routes that delete or reposition rows by item id.
ItemIdOps == {"remove_from_list", "reorder_list", "reorder_list_all"}

\* Row i is in a list that user u owns.
InListOf(d, i, u) == \E l \in d.lists : l.id = i.list_id /\ l.user_id = u

\* C2: whenever remove_from_list, reorder_list or reorder_list_all deletes
\* or repositions a list_items row, for any list id and item id the caller
\* supplies, the row belongs to a list owned by the requesting user.
C2_OnlyOwnRowsTouched ==
  \A op \in ItemIdOps : \A q \in RequestsOf(DB, AnyRequest, op) :
    LET r == Serve(DB, q)
    IN \A i \in list_items : i \notin r.db.list_items => InListOf(DB, i, q.user)

\* The access rule of the read routes: the list is public or the
\* requester is logged in and owns it.
PublicOrOwn(u, l) == l.is_public \/ (u \in Users /\ l.user_id = u)

\* C3: at a list that exists, view_list shows the list and its items if
\* and only if the list is public or the requester owns it, and otherwise
\* redirects showing nothing; duplicate_list by a logged-in user inserts a
\* list if and only if the source is public or the user owns it, and
\* otherwise answers 403 and inserts no list and no item.
T_C3_ReadIffPublicOrOwner ==
  /\ \A q \in RequestsOf(DB, Readers, "view_list") : \A l \in ListById(DB, q.list_id) :
       LET r == Serve(DB, q)
       IN /\ r.db = DB
          /\ IF PublicOrOwn(q.user, l)
               THEN r.resp.status = 200 /\ r.resp.shown_list = {l}
                    /\ r.resp.shown_items = q.env
               ELSE r.resp.status = 302 /\ r.resp.shown_list = {}
                    /\ r.resp.shown_items = <<>>
  /\ \A q \in RequestsOf(DB, Readers, "duplicate_list") : \A l \in ListById(DB, q.list_id) :
       q.user \in Users =>
         LET r == Serve(DB, q)
         IN IF PublicOrOwn(q.user, l)
              THEN r.resp.status = 200 /\ r.db.lists # lists
              ELSE r.resp.status = 403 /\ r.db.lists = lists
                   /\ r.db.list_items = list_items

\* A user was refused (403) the copy of a private list of another user
\* that has items.
W_C3_PrivateCopyRefused ==
  /\ resp.op = "duplicate_list" /\ resp.status = 403 /\ resp.user \in Users
  /\ \E l \in lists : l.id = resp.list_id /\ ~l.is_public /\ l.user_id # resp.user
  /\ ItemsOf(DB, resp.list_id) # {}

\* The login-guarded routes: the pages, and the routes under /api/.
GuardedPages == {"create_list", "edit_list"}
GuardedApi ==
  {"add_to_list", "remove_from_list", "update_list_item", "delete_list",
   "update_list_settings", "duplicate_list", "reorder_list",
   "reorder_list_all", "import_spotify_playlist", "like_list",
   "unlike_list", "follow_user", "unfollow_user"}

\* C4: a request without a session user is not served: a guarded page
\* redirects to the login page, a guarded /api/ route answers 401, and the
\* store is as before.
C4_AnonymousRejected ==
  \A op \in GuardedPages \cup GuardedApi : \A q \in RequestsOf(DB, Anonymous, op) :
    LET r == Serve(DB, q)
    IN /\ r.db = DB
       /\ IF op \in GuardedPages
            THEN r.resp.status = 302 /\ r.resp.target = "login"
            ELSE r.resp.status = 401

\* q with list id l in the URL (and, for an import, in the body).
WithList(q, l) ==
  IF q.op = "import_spotify_playlist"
    THEN [q EXCEPT !.list_id = l, !.body.list_id = l]
    ELSE [q EXCEPT !.list_id = l]

Missing(d, l) == \A x \in d.lists : x.id # l

\* The pairs (request at a missing list id m, same request at an existing
\* list e of another user) satisfy P.
MissingVersusForeign(P(_, _, _)) ==
  \A m, e \in ListIds :
    (Missing(DB, m) /\ ~Missing(DB, e)) =>
      \A op \in MutatingOps : \A q \in RequestsOf(DB, Strangers, op) :
        (q.list_id = m /\ Foreign(DB, WithList(q, e))) =>
          P(op, Serve(DB, q).resp, Serve(DB, WithList(q, e)).resp)

SameResponse(op, rm, re) == rm = [re EXCEPT !.list_id = rm.list_id]

\* C5 as stated: on every mutating route the request at a missing list id
\* and the request at another user's list get the same response, which is
\* 403 'Access denied'.
C5_AsStated ==
  LET P(op, rm, re) ==
        /\ SameResponse(op, rm, re)
        /\ rm.status = 403 /\ rm.msg = "Access denied"
  IN MissingVersusForeign(P)

\* C5 (amended): on every mutating route the request at a missing list id
\* and the request at another user's list get the same response; it is
\* 403 'Access denied' on the seven list routes, and on
\* import_spotify_playlist 403 'List not found or access denied' unless
\* the request was refused earlier (401, 400 or 500).
T_C5_MissingSameAsForeign ==
  LET P(op, rm, re) ==
        /\ SameResponse(op, rm, re)
        /\ IF op = "import_spotify_playlist"
             THEN \/ rm.status \in {401, 400, 500}
                  \/ rm.status = 403 /\ rm.msg = "List not found or access denied"
             ELSE rm.status = 403 /\ rm.msg = "Access denied"
  IN MissingVersusForeign(P)

\* A user was answered 403 at a list id that does not exist while a list
\* of another user exists.
W_C5_MissingDenied ==
  /\ resp.op \in MutatingOps /\ resp.status = 403 /\ resp.user \in Users
  /\ Missing(DB, resp.list_id)
  /\ \E l \in lists : l.user_id # resp.user

\* The positions of the items of list l.
PositionsOf(d, l) == {i.position : i \in ItemsOf(d, l)}

\* The store after user u added the tracks of sequence ts to list l, one
\* request after another.
RECURSIVE AddAll(_, _, _, _, _)
AddAll(d, u, l, ts, k) ==
  IF k > Len(ts) THEN d
  ELSE AddAll(Serve(d, Request("add_to_list", u, l, NoId, ts[k], <<>>)).db,
              u, l, ts, k + 1)

TrackSeqs == UNION {[1..n -> TrackData] : n \in 1..MaxItems}

\* C6: add_to_list by the owner stores one new item, at the largest
\* position of the list plus one, or at 1 when the list has no items; and
\* N adds in a row to an empty list give the N items positions 1..N in
\* the order of insertion.
T_C6_AddAtMaxPlusOne ==
  /\ \A q \in RequestsOf(DB, Owners, "add_to_list") :
       LET r == Serve(DB, q)
           added == r.db.list_items \ list_items
           old == PositionsOf(DB, q.list_id)
       IN /\ r.resp.status = 200
          /\ list_items \subseteq r.db.list_items
          /\ Cardinality(added) = 1
          /\ \A i \in added :
               /\ i.list_id = q.list_id
               /\ i.position = IF old = {} THEN 1
                               ELSE 1 + CHOOSE m \in old : \A x \in old : x <= m
  /\ \A l \in lists : \A ts \in TrackSeqs :
       ItemsOf(DB, l.id) = {} =>
         LET d == AddAll(DB, l.user_id, l.id, ts, 1)
         IN /\ Cardinality(ItemsOf(d, l.id)) = Len(ts)
            /\ \A k \in 1..Len(ts) :
                 \E i \in ItemsOf(d, l.id) :
                   /\ i.id = next_item_id + k - 1
                   /\ i.position = k
                   /\ i.spotify_track_id = ts[k].track_id

\* An owner added an item to a list whose positions had a gap: the new
\* item is at position 3 of a list of two items.
W_C6_AddedAfterGap ==
  /\ resp.op = "add_to_list" /\ resp.status = 200
  /\ Cardinality(ItemsOf(DB, resp.list_id)) = 2
  /\ \E i \in ItemsOf(DB, resp.list_id) : i.id = resp.new_id /\ i.position = 3

\* C7 as stated: whatever adds, removes and reorders the owner has made,
\* the positions of the n items of a list are pairwise distinct and are
\* exactly 1..n.
C7_PositionsDense ==
  \A l \in lists :
    LET n == Cardinality(ItemsOf(DB, l.id))
    IN PositionsOf(DB, l.id) = 1..n

\* C7 (amended): whatever adds and removes the owner has made, the
\* positions of the items of a list are at least 1 and pairwise distinct,
\* growing with the order of insertion; they need not be dense.
T_C7_PositionsDistinct ==
  \A l \in lists : \A i, j \in ItemsOf(DB, l.id) :
    /\ i.position >= 1
    /\ i.id < j.id => i.position < j.position

\* An owner removed the first item of a list of three: the two items left
\* are at positions 2 and 3.
W_C7_GapAfterRemove ==
  /\ resp.op = "remove_from_list" /\ resp.status = 200
  /\ PositionsOf(DB, resp.list_id) = {2, 3}
  /\ Cardinality(ItemsOf(DB, resp.list_id)) = 2

\* The list_items row of track t with id id at position p of list l.
RowOf(id, l, p, t) ==
  ItemRow(id, l, p, t.track_id, t.track_name, t.artist_name, t.album_name,
          t.album_art_url)

\* C8: in the scenario, the list is A's, ranked, and private until A
\* publishes it; Tr1 is added at position 1 and Tr2 at position 2; once
\* Tr1 is removed the list holds only Tr2, still at position 2; and once
\* the list is public, B's view_list shows it with that item, while every
\* mutating request of B at the list is refused with an error status and
\* leaves lists and list_items as they are.
T_C8_Scenario ==
  /\ \A l \in lists : /\ l.user_id = "A" /\ l.is_ranked
                      /\ l.is_public => FirstRemoved(DB)
  /\ next_item_id = 2 => \E l \in lists : list_items = {RowOf(1, l.id, 1, Tr1)}
  /\ (next_item_id = 3 /\ ~FirstRemoved(DB)) =>
       \E l \in lists :
         list_items = {RowOf(1, l.id, 1, Tr1), RowOf(2, l.id, 2, Tr2)}
  /\ FirstRemoved(DB) => \E l \in lists : list_items = {RowOf(2, l.id, 2, Tr2)}
  /\ \A l \in lists : l.is_public =>
       /\ \A q \in RequestsOf(DB, Visitor, "view_list") :
            q.list_id = l.id =>
              LET r == Serve(DB, q)
              IN /\ r.resp.status = 200
                 /\ r.resp.shown_list = {l}
                 /\ r.resp.shown_items = <<RowOf(2, l.id, 2, Tr2)>>
                 /\ ~r.resp.is_owner
       /\ \A op \in MutatingOps :
            \A q \in RequestsOf(DB, Visitor, op) :
              q.list_id = l.id =>
                LET r == Serve(DB, q)
                IN /\ r.resp.status \in {400, 401, 403, 500}
                   /\ r.db.lists = lists
                   /\ r.db.list_items = list_items

\* B was refused (403) a mutating request at A's list after A had removed
\* Tr1 and published the list, which holds Tr2 at position 2.
W_C8_PublishedAndDenied ==
  /\ resp.op \in MutatingOps /\ resp.user = "B" /\ resp.status = 403
  /\ \E l \in lists : /\ l.id = resp.list_id /\ l.is_public /\ l.user_id = "A"
                      /\ list_items = {RowOf(2, l.id, 2, Tr2)}

\* The content fields and the position of a list_items row.
ContentOf(i) ==
  [position |-> i.position, spotify_track_id |-> i.spotify_track_id,
   track_name |-> i.track_name, artist_name |-> i.artist_name,
   album_name |-> i.album_name, album_art_url |-> i.album_art_url]

\* C9: duplicate_list by a logged-in user at a list that is public or the
\* user's own inserts exactly one list, owned by the caller, titled as
\* the source plus ' (Copy)', private, with the source's description and
\* is_ranked; its items are the source's items with the same content
\* fields and positions; the source list and every existing item stay as
\* they are.
T_C9_CopyOfList ==
  \A q \in RequestsOf(DB, Readers, "duplicate_list") : \A l \in ListById(DB, q.list_id) :
    (q.user \in Users /\ PublicOrOwn(q.user, l)) =>
      LET r == Serve(DB, q)
          new_lists == r.db.lists \ lists
          new_items == r.db.list_items \ list_items
      IN /\ r.resp.status = 200
         /\ lists \subseteq r.db.lists
         /\ list_items \subseteq r.db.list_items
         /\ Cardinality(new_lists) = 1
         /\ \A c \in new_lists :
              /\ c.id \notin {x.id : x \in lists}
              /\ c.user_id = q.user
              /\ c.title = l.title \o <<" (Copy)">>
              /\ c.is_public = FALSE
              /\ c.description = l.description
              /\ c.is_ranked = l.is_ranked
              /\ \A i \in new_items : i.list_id = c.id
              /\ Cardinality(new_items) = Cardinality(ItemsOf(DB, l.id))
              /\ {ContentOf(i) : i \in new_items} =
                   {ContentOf(i) : i \in ItemsOf(DB, l.id)}

\* A user copied a public list of another user that has an item; the
\* copy is private and has an item.
W_C9_PublicListCopied ==
  /\ resp.op = "duplicate_list" /\ resp.status = 200
  /\ \E l \in lists : /\ l.id = resp.list_id /\ l.is_public
                      /\ l.user_id # resp.user
  /\ ItemsOf(DB, resp.list_id) # {}
  /\ \E c \in lists : c.id = resp.new_id /\ ~c.is_public /\ c.user_id = resp.user
  /\ ItemsOf(DB, resp.new_id) # {}

\* C10: like_list twice in a row by one user at one list leaves one
\* list_likes row for the pair and answers success both times, and so
\* does follow_user twice in a row by one user at another user;
\* unlike_list and unfollow_user at a relation that does not exist answer
\* success and change nothing.
T_C10_Idempotent ==
  /\ \A q \in RequestsOf(DB, AnyRequest, "like_list") :
       q.user \in Users =>
         LET r1 == Serve(DB, q)
             r2 == Serve(r1.db, q)
         IN /\ r1.resp.status = 200 /\ r2.resp.status = 200
            /\ r2.db.list_likes[<<q.user, q.list_id>>] = 1
            /\ r2.db = r1.db
  /\ \A q \in RequestsOf(DB, AnyRequest, "follow_user") :
       (q.user \in Users /\ q.user # q.body) =>
         LET r1 == Serve(DB, q)
             r2 == Serve(r1.db, q)
         IN /\ r1.resp.status = 200 /\ r2.resp.status = 200
            /\ r2.db.followers[<<q.user, q.body>>] = 1
            /\ r2.db = r1.db
  /\ \A q \in RequestsOf(DB, AnyRequest, "unlike_list") :
       (q.user \in Users /\ list_likes[<<q.user, q.list_id>>] = 0) =>
         LET r == Serve(DB, q)
         IN r.resp.status = 200 /\ r.db = DB
  /\ \A q \in RequestsOf(DB, AnyRequest, "unfollow_user") :
       (q.user \in Users /\ followers[<<q.user, q.body>>] = 0) =>
         LET r == Serve(DB, q)
         IN r.resp.status = 200 /\ r.db = DB

\* A user liked a list already liked: the answer is 'Already liked' and
\* the pair has one row.
W_C10_LikedTwice ==
  /\ resp.op = "like_list" /\ resp.status = 200 /\ resp.msg = "Already liked"
  /\ list_likes[<<resp.user, resp.list_id>>] = 1

\* The rating routes, the table each writes, and the store with the rows
\* of key k in the table of route op replaced by rows.
RatingOps == {"save_album_rating", "save_song_rating"}
TableOf(d, op) == IF op = "save_album_rating" THEN d.album_ratings ELSE d.song_ratings
WithRows(d, op, k, rows) ==
  IF op = "save_album_rating"
    THEN [d EXCEPT !.album_ratings[k] = rows]
    ELSE [d EXCEPT !.song_ratings[k] = rows]
KeyOf(q) == <<q.user, q.body.name, q.body.artist_name>>

\* Every request of a logged-in user to a rating route.
RatingRequests(op) ==
  {q \in RequestsOf(DB, AnyRequest, op) : q.user \in Users}

\* C13: saving rating 0 answers success, removes the caller's row for the
\* subject when there is one and changes nothing otherwise (every other
\* row of either table stays); no stored row has rating 0.
T_C13_ZeroDeletes ==
  /\ \A op \in RatingOps : \A k \in RatingKeys :
       \A i \in 1..Len(TableOf(DB, op)[k]) : TableOf(DB, op)[k][i].rating # 0
  /\ \A op \in RatingOps : \A q \in RatingRequests(op) :
       q.body.rating = 0 =>
         LET r == Serve(DB, q)
         IN /\ r.resp.status = 200
            /\ r.db = WithRows(DB, op, KeyOf(q), <<>>)
            /\ TableOf(DB, op)[KeyOf(q)] = <<>> => r.db = DB

\* A user who has a rating for the album of artist a2 saved rating 0 for
\* the album of the other artist, and has no row for that one.
W_C13_ZeroSaved ==
  /\ resp.op = "save_album_rating" /\ resp.status = 200 /\ resp.count = 0
  /\ resp.target = "a1"
  /\ album_ratings[<<resp.user, "n1", "a1">>] = <<>>
  /\ album_ratings[<<resp.user, "n1", "a2">>] # <<>>

\* C14: each table holds at most one row per (user, name, artist); saving
\* a non-zero rating leaves exactly one row for the caller's key, with
\* the rating and art saved, whether or not a row existed, and leaves the
\* rows of every other key and of the other table as they were.
T_C14_OneRowPerKey ==
  /\ \A op \in RatingOps : \A k \in RatingKeys : Len(TableOf(DB, op)[k]) <= 1
  /\ \A op \in RatingOps : \A q \in RatingRequests(op) :
       q.body.rating # 0 =>
         LET r == Serve(DB, q)
         IN /\ r.resp.status = 200
            /\ r.db = WithRows(DB, op, KeyOf(q),
                               <<[rating |-> q.body.rating,
                                  album_art_url |-> q.body.album_art_url]>>)

\* A user saved rating 2 for an album: the album has one row, of rating 2,
\* and the other user has a row of another rating for the same album.
W_C14_RatingSaved ==
  /\ resp.op = "save_album_rating" /\ resp.status = 200 /\ resp.count = 2
  /\ \E v \in Users \ {resp.user} :
       /\ Len(album_ratings[<<v, "n1", resp.target>>]) = 1
       /\ album_ratings[<<v, "n1", resp.target>>][1].rating = 1
  /\ Len(album_ratings[<<resp.user, "n1", resp.target>>]) = 1
  /\ album_ratings[<<resp.user, "n1", resp.target>>][1].rating = 2

\* The profile_favorites rows of user u and type t in store d.
FavoritesOf(d, u, t) ==
  {r \in d.profile_favorites : r.user_id = u /\ r.favorite_type = t}

\* Every request of a logged-in user to route op with a valid type.
FavRequests(op) ==
  {q \in RequestsOf(DB, AnyRequest, op) :
     q.user \in Users /\ q.body.favorite_type \in {"song", "album"}}

\* C15: save_favorites leaves, as the caller's rows of the type, exactly
\* the first min(5, len(items)) submitted items at positions 1..k in the
\* submitted order, and leaves every other row as it was; remove_favorite
\* removes the caller's rows of the type at the position and nothing
\* else; no user has more than 5 rows of a type.
T_C15_ReplaceAllCapFive ==
  /\ \A u \in Users : \A t \in {"song", "album"} :
       Cardinality(FavoritesOf(DB, u, t)) <= 5
  /\ \A q \in FavRequests("save_favorites") :
       LET r == Serve(DB, q)
           u == q.user
           t == q.body.favorite_type
           items == q.body.items
           k == IF Len(items) < 5 THEN Len(items) ELSE 5
       IN /\ r.resp.status = 200
          /\ FavoritesOf(r.db, u, t) =
               {[user_id |-> u, favorite_type |-> t, position |-> i,
                 spotify_id |-> items[i].spotify_id, name |-> items[i].name,
                 artist_name |-> items[i].artist_name,
                 album_art_url |-> items[i].album_art_url] : i \in 1..k}
          /\ r.db.profile_favorites \ FavoritesOf(r.db, u, t) =
               profile_favorites \ FavoritesOf(DB, u, t)
          /\ r.db = [DB EXCEPT !.profile_favorites = r.db.profile_favorites]
  /\ \A q \in FavRequests("remove_favorite") :
       LET r == Serve(DB, q)
       IN /\ r.resp.status = 200
          /\ r.db.profile_favorites =
               {x \in profile_favorites :
                  ~(x \in FavoritesOf(DB, q.user, q.body.favorite_type)
                      /\ x.position = q.body.position)}
          /\ r.db = [DB EXCEPT !.profile_favorites = r.db.profile_favorites]

\* User A, who has an album favorite, saved six song favorites: A has
\* five song rows, at positions 1..5, and still the album row.
W_C15_SixSaved ==
  /\ resp.op = "save_favorites" /\ resp.status = 200 /\ resp.count = 6
  /\ resp.target = "song"
  /\ {r.position : r \in FavoritesOf(DB, resp.user, "song")} = 1..5
  /\ FavoritesOf(DB, resp.user, "album") # {}

\* C12: no followers row has the same user as follower and as followed;
\* follow_user with the caller's own id answers 400 and leaves the store
\* as it was.
T_C12_NoSelfFollow ==
  /\ \A u \in Users : followers[<<u, u>>] = 0
  /\ \A q \in RequestsOf(DB, AnyRequest, "follow_user") :
       (q.user \in Users /\ q.body = q.user)
         => LET r == Serve(DB, q)
            IN r.resp.status = 400 /\ r.db = DB

\* A user who follows the other user asked to follow themselves and was
\* refused.
W_C12_SelfFollowRefused ==
  /\ resp.op = "follow_user" /\ resp.user \in Users
  /\ resp.target = resp.user /\ resp.status = 400
  /\ \E v \in Users : followers[<<resp.user, v>>] > 0

\* The playlist imports user A can send at store d, at every clock
\* reading and with every answer of the token endpoint.
ImportRequests(d) == RequestsOf(d, [Importer EXCEPT !.users = Users,
                                                     !.refreshes = RefreshResponses],
                                "import_spotify_playlist")

\* The stored expiry of profile p has passed at clock reading t.
Passed(p, t) == p.spotify_token_expires # NoTime /\ t >= p.spotify_token_expires

\* C16: for a linked user whose stored expiry has passed, an import whose
\* refresh is answered calls the token endpoint once, stores the new
\* access token and the new expiry, stores the refresh token of the answer
\* if it carries one and keeps the stored one otherwise, and runs with the
\* new access token; when the expiry has not passed, the import calls
\* nothing, writes no profile and runs with the stored access token.
T_C16_RefreshOnExpiry ==
  \A q \in ImportRequests(DB) :
    LET u == q.user
        p == profiles[u]
        t == q.env.t
        token_data == q.env.token_data
        c == get_user_spotify_client(DB, u, t, token_data)
        r == Serve(DB, q)
    IN p.spotify_access_token # Null =>
         /\ r.db.profiles = c.db.profiles
         /\ (Passed(p, t) /\ token_data.ok) =>
              /\ c.refreshed
              /\ c.sp = token_data.access_token
              /\ r.resp.status # 401
              /\ r.db.profiles =
                   [profiles EXCEPT ![u] =
                      [spotify_user_id |-> p.spotify_user_id,
                       spotify_display_name |-> p.spotify_display_name,
                       spotify_access_token |-> token_data.access_token,
                       spotify_refresh_token |->
                          IF token_data.refresh_token = {}
                            THEN p.spotify_refresh_token
                            ELSE ValueOf(token_data.refresh_token),
                       spotify_token_expires |-> t + token_data.expires_in]]
         /\ ~Passed(p, t) =>
              /\ ~c.refreshed
              /\ c.sp = p.spotify_access_token
              /\ r.resp.status # 401
              /\ r.db.profiles = profiles

\* User A's import at the current clock reading refreshed the token: the
\* profile holds the new access token, an expiry one tick ahead and the
\* refresh token of the link, as the answer carried none.
W_C16_Refreshed ==
  /\ resp.op = "import_spotify_playlist" /\ resp.status = 200
  /\ profiles[resp.user].spotify_access_token = "at2"
  /\ profiles[resp.user].spotify_refresh_token = "rt1"
  /\ profiles[resp.user].spotify_token_expires = now + 1
  /\ now > 0

\* C17: when the stored expiry of a linked user has passed and the token
\* endpoint refuses the refresh, or the profile holds no refresh token,
\* get_user_spotify_client returns no client, the import answers 401
\* "Spotify not connected", and the profiles table is as it was.
T_C17_FailedRefreshKeepsProfile ==
  \A q \in ImportRequests(DB) :
    LET u == q.user
        p == profiles[u]
        t == q.env.t
        token_data == q.env.token_data
        NotConnectedAt(d) ==
          LET c == get_user_spotify_client(d, u, t, token_data)
              r == Serve(d, q)
          IN /\ c.sp = Null
             /\ c.db.profiles = d.profiles
             /\ r.resp.status = 401 /\ r.resp.msg = "Spotify not connected"
             /\ r.db = [d EXCEPT !.now = t]
    IN (p.spotify_access_token # Null /\ Passed(p, t)) =>
         /\ ~token_data.ok => NotConnectedAt(DB)
         /\ NotConnectedAt([DB EXCEPT !.profiles[u].spotify_refresh_token = Null])

\* User A's import found the token expired and the refresh refused: it
\* was answered 401 and the profile still holds the expired credential.
W_C17_RefreshRefused ==
  /\ resp.op = "import_spotify_playlist" /\ resp.status = 401
  /\ profiles[resp.user].spotify_access_token = "at1"
  /\ profiles[resp.user].spotify_refresh_token = "rt1"
  /\ profiles[resp.user].spotify_token_expires <= now

Setting(field, stored) == IF field = {} THEN stored ELSE ValueOf(field)

\* The settings requests of the owners: each key absent or present, the
\* title and the description with one new value.
SettingsOfOwner ==
  [Owners EXCEPT !.settings = {b \in SettingsBodies :
                                 /\ b.title # {<<"X">>}
                                 /\ b.description # {<<"d1">>}}]

\* C19: every step keeps the user_id of every list that stays, and a list
\* that appears belongs to the user whose request was served; and
\* update_list_settings by the owner leaves in the row of the list, for
\* each of title, description, is_public and is_ranked, the value of the
\* body if the body has the key and the stored value otherwise, with the
\* id, the user_id and everything else in the store as they were.
T_C19_OwnerImmutable ==
  /\ [][/\ \A l \in lists : \A m \in lists' :
             m.id = l.id => m.user_id = l.user_id
        /\ \A m \in lists' :
             (\A l \in lists : l.id # m.id)
               => (resp'.user \in Users /\ m.user_id = resp'.user)]_vars
  /\ [](\A q \in RequestsOf(DB, SettingsOfOwner, "update_list_settings") :
          LET r == Serve(DB, q)
              l == CHOOSE x \in lists : x.id = q.list_id
          IN /\ r.resp.status = 200
             /\ r.db = [DB EXCEPT !.lists =
                          (lists \ {l}) \cup
                            {[id |-> l.id, user_id |-> l.user_id,
                              title |-> Setting(q.body.title, l.title),
                              description |-> Setting(q.body.description,
                                                      l.description),
                              is_public |-> Setting(q.body.is_public, l.is_public),
                              is_ranked |-> Setting(q.body.is_ranked, l.is_ranked)]}])

\* User B copied the list that user A created, retitled and published:
\* the list is still A's and the copy is B's.
W_C19_CopiedAfterSettings ==
  /\ resp.op = "duplicate_list" /\ resp.user = "B" /\ resp.new_id # NoId
  /\ \E l, m \in lists :
       /\ l.id = resp.list_id /\ l.user_id = "A"
       /\ l.title = <<"Y">> /\ l.is_public
       /\ m.id = resp.new_id /\ m.user_id = "B"

\* C11: list_likes holds at most one row per user and list, and followers
\* at most one row per follower and followed user.
C11_OneRowPerPair ==
  /\ \A p \in DOMAIN list_likes : list_likes[p] <= 1
  /\ \A p \in DOMAIN followers : followers[p] <= 1

\* C20: when two workers hold add_to_list requests for one list that have
\* read their next position, the two inserts, one after the other, add
\* one row each at the position its request read, whatever the other
\* inserted, and leave the rows that were there as they were; so two
\* requests that read the same position leave two items of the list at
\* that position.
T_C20_RacingAddsCollide ==
  \A w1, w2 \in Workers :
    LET p1 == inflight[w1]
        p2 == inflight[w2]
        r1 == Insert(DB, p1)
        r2 == Insert(r1.db, p2)
    IN (/\ w1 # w2
        /\ p1.op = "add_to_list" /\ p2.op = "add_to_list"
        /\ p1.list_id = p2.list_id)
         => /\ r1.resp.status = 200 /\ r2.resp.status = 200
            /\ list_items \subseteq r2.db.list_items
            /\ {<<i.id, i.list_id, i.position>> : i \in r2.db.list_items \ list_items}
                 = {<<next_item_id, p1.list_id, p1.read>>,
                    <<next_item_id + 1, p2.list_id, p2.read>>}
            /\ p1.read = p2.read =>
                 \E i, j \in r2.db.list_items :
                   /\ i.id # j.id /\ i.list_id = j.list_id
                   /\ i.position = j.position

\* Two add_to_list requests of the owner have been served side by side:
\* two items of list 1 carry the same position, and no request is still
\* under way.
W_C20_SamePositionTwice ==
  /\ resp.op = "add_to_list" /\ resp.status = 200
  /\ \A w \in Workers : inflight[w].op = "idle"
  /\ \E i, j \in list_items :
       /\ i.id # j.id /\ i.list_id = j.list_id /\ i.position = j.position

\* C30: spotify_callback writes a profile only when the request has no
\* error parameter, has a code and a session user, the code exchange
\* answered with tokens and the user lookup succeeded; it then sets the
\* five credential columns of the session user's row from the answers
\* and leaves every other row as it was; otherwise the profiles table is
\* as before.
T_C30_LinkOnlyOnCompleteCallback ==
  \A q \in RequestsOf(DB, AnyRequest, "spotify_callback") :
    LET r == Serve(DB, q)
        token_data == q.env.token_data
        complete == /\ q.body.error = {} /\ q.body.code # {}
                    /\ q.user \in Users
                    /\ token_data.ok /\ q.env.spotify_user # Null
    IN IF complete
         THEN r.db.profiles =
                [profiles EXCEPT ![q.user] =
                   [spotify_user_id |-> q.env.spotify_user,
                    spotify_display_name |-> q.env.spotify_user,
                    spotify_access_token |-> token_data.access_token,
                    spotify_refresh_token |-> ValueOf(token_data.refresh_token),
                    spotify_token_expires |-> q.env.t + token_data.expires_in]]
         ELSE r.db = DB

\* User B's callback completed while user A's account was linked: both
\* profiles hold credentials.
W_C30_Linked ==
  /\ resp.op = "spotify_callback" /\ resp.user = "B"
  /\ resp.target = "user_profile"
  /\ profiles["B"].spotify_access_token # Null
  /\ profiles["B"].spotify_user_id # Null
  /\ profiles["A"].spotify_access_token # Null

\* C28: update_list_item by the owner of list_id answers success; if an
\* item with the id of the request is in that list, the item gets the
\* five content fields of the body and keeps its id, list and position,
\* and the response reports one updated row; otherwise no item changes
\* and the response reports none.  Every other item and the rest of the
\* store are as before.
T_C28_UpdateOnlyOwnItem ==
  \A q \in RequestsOf(DB, [AnyRequest EXCEPT !.roles = {"owner"}],
                      "update_list_item") :
    LET r == Serve(DB, q)
        hit == {i \in list_items : i.id = q.item_id /\ i.list_id = q.list_id}
    IN /\ r.resp.status = 200
       /\ r.resp.count = Cardinality(hit)
       /\ r.db = [DB EXCEPT !.list_items =
                    {i \in list_items : i \notin hit} \cup
                      {[id |-> i.id, list_id |-> i.list_id, position |-> i.position,
                        spotify_track_id |-> q.body.track_id,
                        track_name |-> q.body.track_name,
                        artist_name |-> q.body.artist_name,
                        album_name |-> q.body.album_name,
                        album_art_url |-> q.body.album_art_url] : i \in hit}]

\* A user asked, through a list of their own, to swap an item that is in
\* a list of the other user: nothing was updated and the item still
\* holds track Tr1.
W_C28_ForeignItemNotUpdated ==
  /\ resp.op = "update_list_item" /\ resp.status = 200 /\ resp.count = 0
  /\ \E i \in list_items : \E l \in lists :
       /\ i.id = resp.item_id /\ i.list_id # resp.list_id
       /\ l.id = i.list_id /\ l.user_id # resp.user
       /\ i.spotify_track_id = Tr1.track_id

\* The tracks of each playlist that have an id, in playlist order over
\* all its pages.
TracksWithId ==
  [p \in PlaylistIds |-> IF p = "p1" THEN <<Tr1, Tr2>> ELSE <<Tr2>>]

\* The list_items rows that hold tracks at the positions first, first+1,
\* ... of list list_id, with the ids the datastore hands out from d on.
Imported(d, list_id, tracks, first) ==
  {[id |-> d.next_item_id + (k - 1), list_id |-> list_id,
    position |-> first + (k - 1),
    spotify_track_id |-> tracks[k].track_id, track_name |-> tracks[k].track_name,
    artist_name |-> tracks[k].artist_name, album_name |-> tracks[k].album_name,
    album_art_url |-> tracks[k].album_art_url] : k \in 1..Len(tracks)}

\* The imports of logged-in users that name a playlist and get it from
\* the service, at every clock reading, the token endpoint refusing or
\* answering with token at2.
FetchedImports ==
  [AnyRequest EXCEPT
     !.users = Users, !.api = {TRUE},
     !.imports = {b \in ImportBodies : b.playlist_id # {}},
     !.refreshes = {x \in RefreshResponses :
                      x.ok => (x.access_token = "at2" /\ x.refresh_token = {})}]

\* C24: an import that has a client, a playlist id and the playlist
\* fetched takes the tracks with an id of all pages in playlist order.
\* With a target list of the caller it adds them at the positions after
\* the highest position of the list (from 1 if the list is empty) and
\* leaves the rows that were there; with no target it adds one private
\* ranked list of the caller and the tracks at positions 1..N in it.
T_C24_ImportAppendsOrCreates ==
  \A q \in RequestsOf(DB, FetchedImports, "import_spotify_playlist") :
    LET r == Serve(DB, q)
        u == q.user
        c == get_user_spotify_client(DB, u, q.env.t, q.env.token_data)
        tracks == TracksWithId[ValueOf(q.body.playlist_id)]
        own == \E l \in lists : l.id = q.body.list_id /\ l.user_id = u
        held == {i.position : i \in {x \in list_items : x.list_id = q.body.list_id}}
        first == IF held = {} THEN 1
                 ELSE 1 + CHOOSE m \in held : \A x \in held : x <= m
    IN (u \in Users /\ c.sp # Null /\ q.body.playlist_id # {}) =>
         /\ (q.body.list_id # NoId /\ own) =>
              /\ r.resp.status = 200 /\ r.resp.count = Len(tracks)
              /\ r.db.lists = lists
              /\ r.db.list_items =
                   list_items \cup Imported(DB, q.body.list_id, tracks, first)
         /\ q.body.list_id = NoId =>
              /\ r.resp.status = 200 /\ r.resp.count = Len(tracks)
              /\ \E l \in r.db.lists :
                   /\ r.db.lists = lists \cup {l} /\ l \notin lists
                   /\ l.id = next_list_id /\ l.user_id = u
                   /\ l.is_ranked /\ ~l.is_public
                   /\ r.db.list_items =
                        list_items \cup Imported(DB, l.id, tracks, 1)

\* User A imported the two tracks with an id of playlist p1 into a list
\* that held one item: the list holds positions 1, 2 and 3, the last
\* with the track of the second page.
W_C24_AppendedAfterItem ==
  /\ resp.op = "import_spotify_playlist" /\ resp.status = 200
  /\ resp.count = 2 /\ resp.list_id # NoId
  /\ {i.position : i \in {x \in list_items : x.list_id = resp.list_id}} = 1..3
  /\ \E i \in list_items :
       /\ i.list_id = resp.list_id /\ i.position = 3
       /\ i.spotify_track_id = Tr2.track_id

\* The list_items rows of store d whose list row does not exist.
Orphans(d) == {i \in d.list_items : \A l \in d.lists : l.id # i.list_id}

\* The delete_list requests of the owner of a list that holds items.
DeletesOfFilledList ==
  {q \in RequestsOf(DB, [AnyRequest EXCEPT !.roles = {"owner"}], "delete_list") :
     \E i \in list_items : i.list_id = q.list_id}

\* The store a delete_list request leaves when it dies after n of its
\* statements.
DiedAfter(q, n) ==
  IF n = 0 THEN Started(DB, q)
  ELSE Execute(Started(DB, q), Statements(DB, q)[1])

\* C22 as stated: a delete_list that dies between its two statements
\* leaves items whose list row does not exist.
C22_AsStated ==
  \A q \in DeletesOfFilledList : Orphans(DiedAfter(q, 1)) # {}

\* C22: delete_list runs two statements, the first deleting the items of
\* the list and the second the lists row.  A request that dies between
\* them leaves the lists row, none of the items of the list, every other
\* row as it was, and no item without a list row that was not there
\* before.
T_C22_CrashLeavesEmptyList ==
  \A q \in DeletesOfFilledList :
    LET d1 == DiedAfter(q, 1)
        d2 == Execute(d1, Statements(DB, q)[2])
    IN /\ Len(Statements(DB, q)) = 2
       /\ d1 = [DB EXCEPT !.list_items = {i \in list_items : i.list_id # q.list_id}]
       /\ Orphans(d1) = Orphans(DB)
       /\ d2 = Serve(DB, q).db
       /\ d2 = [d1 EXCEPT !.lists = {l \in lists : l.id # q.list_id}]

\* A delete of list 1, which held an item, died after its first
\* statement: the list is there and holds no item.
W_C22_DiedBetween ==
  /\ resp.op = "delete_list" /\ resp.status = 500 /\ resp.count = 1
  /\ \E l \in lists : l.id = resp.list_id
  /\ next_item_id > 1
  /\ list_items = {}

\* The store after the first n of the statements sts have run on store d.
RECURSIVE Ran(_, _, _)
Ran(d, sts, n) == IF n = 0 THEN d ELSE Execute(Ran(d, sts, n - 1), sts[n])

\* The requests of the owner of list 1 that run statements: deletes, imports of playlist p1 into the list, and copies.
Racers ==
  {q \in RequestsOf(DB, Deleter, "delete_list")
         \cup RequestsOf(DB, Filler, "import_spotify_playlist")
         \cup RequestsOf(DB, Deleter, "duplicate_list") :
     ~InOneStep(DB, q)}

\* The list the statements of request q work on.
TargetOf(q) == IF q.op = "duplicate_list" THEN next_list_id ELSE q.list_id

\* What the user of request q sees of list list_id at store d.
Views(d, q, list_id) ==
  {Serve(d, v).resp :
     v \in RequestsOf(d, [AnyRequest EXCEPT !.users = {q.user}, !.lists = {list_id}],
                      "view_list")}

\* C23: the statements of a delete, an import or a copy, run one after
\* the other, give what the handler gives; a view_list served after the
\* first statement of a delete shows the list row and none of the items
\* the list held; a view_list served after n statements of an import or a
\* copy, n less than their number, shows the items the target held plus
\* the first n inserted, fewer than the request leaves in the end.
T_C23_ReaderSeesIntermediate ==
  \A q \in Racers :
    LET sts == Statements(DB, q)
        d0 == Started(DB, q)
        end == Serve(DB, q).db
        target == TargetOf(q)
    IN /\ Ran(d0, sts, Len(sts)) = end
       /\ \A n \in 1..(Len(sts) - 1) : \A r \in Views(Ran(d0, sts, n), q, target) :
            /\ r.status = 200
            /\ r.shown_list = ListById(d0, target)
            /\ q.op = "delete_list" => r.shown_items = <<>>
            /\ q.op # "delete_list" =>
                 /\ Len(r.shown_items) = Cardinality(ItemsOf(DB, target)) + n
                 /\ {i.position : i \in {r.shown_items[k] : k \in 1..Len(r.shown_items)}}
                      = {i.position : i \in ItemsOf(DB, target)}
                          \cup {sts[k].position : k \in 1..n}
                 /\ {r.shown_items[k] : k \in 1..Len(r.shown_items)} \subseteq
                      ItemsOf(end, target)
                 /\ Len(r.shown_items) < Cardinality(ItemsOf(end, target))

\* While a delete of list 1 has run its first statement and no other
\* request is on its way, the owner is shown the list, which had held
\* items, without any item.
W_C23_EmptiedListSeen ==
  /\ resp.op = "view_list" /\ resp.status = 200
  /\ resp.shown_list # {} /\ resp.shown_items = <<>>
  /\ next_item_id > 1
  /\ \E w \in Workers :
       /\ inflight[w].op = "delete_list" /\ inflight[w].read = 1
       /\ inflight[w].list_id = resp.list_id
       /\ \A v \in Workers \ {w} : inflight[v].op = "idle"

\* C26: no list_items row is without its lists row.
C26_NoOrphans == Orphans(DB) = {}

\* The requests whose refresh is on its way.
RefreshesOnTheWay ==
  {inflight[w].body : w \in {v \in Workers : inflight[v].op = "get_user_spotify_client"}}

\* C21: a request refreshes whenever the row it reads holds an expired
\* token and a refresh token, whatever other requests are on their way;
\* read and update done with no request in between give what the handler
\* gives; the update of a refresh on its way writes the access token and
\* the expiry of its own answer over whatever the row holds by then (the
\* refresh token only if the answer carries one), and the request goes
\* on to its import with that token.
T_C21_LastRefreshWins ==
  /\ \A q \in RequestsOf(DB, Refresher, "import_spotify_playlist") :
       LET row == profiles[q.user]
       IN /\ Refreshes(DB, q) <=>
               /\ row.spotify_access_token # Null
               /\ row.spotify_token_expires # NoTime
               /\ q.env.t >= row.spotify_token_expires
               /\ row.spotify_refresh_token # Null
          /\ Refreshes(DB, q) => PersistRefresh(DB, Refreshing(q)) = Serve(DB, q)
  /\ \A q \in RefreshesOnTheWay :
       LET r == PersistRefresh(DB, Refreshing(q))
           row == r.db.profiles[q.user]
           token_data == q.env.token_data
       IN /\ row.spotify_access_token = token_data.access_token
          /\ row.spotify_token_expires = q.env.t + token_data.expires_in
          /\ row.spotify_refresh_token =
               IF Present(token_data.refresh_token)
                 THEN ValueOf(token_data.refresh_token)
                 ELSE profiles[q.user].spotify_refresh_token
          /\ r.resp.status = 200
          /\ \A u \in Users \ {q.user} : r.db.profiles[u] = profiles[u]

\* Two imports of user A read the expired token at time 1; the one that
\* got token at1 and refresh token rt2 updated the row first, the one
\* that got token at2 last: the row holds at2, rt2 and the expiry 2.
W_C21_SecondRefreshStored ==
  /\ Quiet
  /\ resp.op = "import_spotify_playlist" /\ resp.status = 200
  /\ profiles["A"].spotify_user_id # Null
  /\ profiles["A"].spotify_access_token = "at2"
  /\ profiles["A"].spotify_refresh_token = "rt2"
  /\ profiles["A"].spotify_token_expires = 2

\* C27: when no request is on its way, a profile without streaming
\* account holds no access token, no refresh token and no expiry.
C27_NoTokenWithoutAccount ==
  Quiet =>
    \A u \in Users :
      profiles[u].spotify_user_id = Null =>
        /\ profiles[u].spotify_access_token = Null
        /\ profiles[u].spotify_refresh_token = Null
        /\ profiles[u].spotify_token_expires = NoTime

\* The exports of every requester at every list, to a new playlist or to
\* playlist p1, before and after the token has expired, with
\* current_user() and any of the writes failing or not, the token
\* endpoint refusing.
ExportRequests ==
  [AnyRequest EXCEPT
     !.exports = {b \in ExportBodies :
                    b.new_playlist_name = {} /\ b.playlist_id \in {{}, {"p1"}}},
     !.clock = {t \in Times : t <= 1},
     !.refreshes = {NoTokenData}]

HasTrackId(item) == item.spotify_track_id # Null

RECURSIVE Flatten(_)
Flatten(seqs) == IF seqs = <<>> THEN <<>> ELSE Head(seqs) \o Flatten(Tail(seqs))

\* What a playlist that held `content' holds after the writes `calls'.
RECURSIVE Held(_, _)
Held(content, calls) ==
  IF calls = <<>> THEN content
  ELSE Held(IF Head(calls).call = "playlist_add_items"
              THEN content \o Head(calls).uris ELSE <<>>,
            Tail(calls))

\* C25: an export that gets to its writes sends the ids of the items of
\* the list that have one, in the order of the items query, as uris in
\* batches of BatchSize (the last may be shorter), after the
\* write that empties the target playlist or creates the new one, and
\* the playlist then holds exactly these uris.  When write number k
\* fails the answer is 500, the service has carried out the k-1 writes
\* before it and no other, and the store is as after the token check.
\* An export that is refused before its writes makes none.
T_C25_ExportInBatches ==
  \A q \in RequestsOf(DB, ExportRequests, "export_to_spotify") :
    LET r == Serve(DB, q)
        u == q.user
        withId == SelectSeq(q.env.items, HasTrackId)
        uris == [k \in 1..Len(withId) |-> Uri(withId[k].spotify_track_id)]
        readable == \E l \in lists :
                      l.id = q.body.list_id /\ (l.is_public \/ l.user_id = u)
        reaches == /\ u # Anon /\ q.body.list_id # NoId /\ readable
                   /\ get_user_spotify_client(DB, u, q.env.t, q.env.token_data).sp # Null
                   /\ withId # <<>> /\ q.env.api_ok
        all == Serve(DB, [q EXCEPT !.env.fail_at = 0]).resp.sent
        adds == SubSeq(all, 2, Len(all))
        old == <<Uri("t0")>>
    IN /\ ~reaches => (r.resp.sent = <<>> /\ r.resp.status # 200)
       /\ reaches =>
            /\ r.db = get_user_spotify_client(DB, u, q.env.t, q.env.token_data).db
            /\ Len(all) >= 2
            /\ all[1].call = IF Present(q.body.playlist_id)
                               THEN "playlist_replace_items" ELSE "user_playlist_create"
            /\ all[1].uris = <<>>
            /\ Present(q.body.playlist_id) => all[1].playlist = ValueOf(q.body.playlist_id)
            /\ \A k \in 1..Len(adds) :
                 /\ adds[k].call = "playlist_add_items"
                 /\ adds[k].playlist = all[1].playlist
                 /\ Len(adds[k].uris) \in 1..BatchSize
                 /\ k < Len(adds) => Len(adds[k].uris) = BatchSize
            /\ Flatten([k \in 1..Len(adds) |-> adds[k].uris]) = uris
            /\ Held(old, all) = uris
            /\ IF q.env.fail_at \in 1..Len(all)
                 THEN /\ r.resp.status = 500
                      /\ r.resp.sent = SubSeq(all, 1, q.env.fail_at - 1)
                      /\ Held(old, r.resp.sent) =
                           IF q.env.fail_at = 1 THEN old
                           ELSE SubSeq(uris, 1, Len(Held(old, r.resp.sent)))
                      /\ Len(Held(old, r.resp.sent)) < Len(uris) \/ q.env.fail_at = 1
                 ELSE /\ r.resp.status = 200
                      /\ r.resp.sent = all
                      /\ r.resp.count = Len(uris)

\* An export of a list with more tracks with id than a batch holds to
\* playlist p1 failed at its second batch: the service has emptied the
\* playlist and added the first batch, the answer is an error.
W_C25_SecondBatchFailed ==
  /\ resp.op = "export_to_spotify" /\ resp.status = 500
  /\ Len(resp.sent) = 2
  /\ resp.sent[1].call = "playlist_replace_items"
  /\ resp.sent[2].call = "playlist_add_items"
  /\ Len(resp.sent[2].uris) = BatchSize
  /\ Cardinality({i \in ItemsOf(DB, resp.list_id) : HasTrackId(i)}) > BatchSize

\* The routes that show lists or work on a list the requester can read.
ListReadOps ==
  {"index", "user_profile", "unified_search", "item_details",
   "get_user_liked_lists", "view_list", "edit_list", "duplicate_list",
   "export_to_spotify"}

\* Store d with the private lists of users other than u emptied of
\* their items.
WithoutPrivateItems(d, u) ==
  LET hidden == {l.id : l \in {x \in d.lists : ~x.is_public /\ x.user_id # u}}
  IN [d EXCEPT !.list_items = {i \in @ : i.list_id \notin hidden}]

\* The answers requester u can get from route op at store d, each with
\* the request it answers.
AnswersTo(d, u, op) ==
  LET E == [AnyRequest EXCEPT !.users = {u}, !.clock = {d.now},
                              !.refreshes = {NoTokenData}, !.api = {TRUE},
                              !.failures = {0}]
  IN {[list_id |-> q.list_id, body |-> q.body, resp |-> Serve(d, q).resp] :
        q \in RequestsOf(d, E, op)}

\* C29: what a requester can be answered by the routes that show lists
\* does not depend on the items of the private lists of other users, and
\* no answer shows a private list of another user.
C29_PrivateListsInvisible ==
  \A u \in Requesters : \A op \in ListReadOps :
    /\ AnswersTo(DB, u, op) = AnswersTo(WithoutPrivateItems(DB, u), u, op)
    /\ \A r \in AnswersTo(DB, u, op) : \A s \in r.resp.shown_list :
         \A l \in lists : l.id = s.id => (l.is_public \/ l.user_id = u)

====
